---- MODULE Spec2Model ----
(***************************************************************************)
(* Storage abstraction layer of self-image-bed: the provider registry      *)
(* (StorageManager), the four storage providers (TelegramStorage,          *)
(* S3Storage, MinIOStorage, SupabaseStorage) and the calls made on them.   *)
(*                                                                         *)
(* A JavaScript value that may be undefined is modelled with the string    *)
(* Absent; a call's outcome is a record tagged "return" or "throw".        *)
(***************************************************************************)
EXTENDS Integers, Sequences, FiniteSets, TLC

VARIABLES
    env,        \* the configuration object handed to the StorageManager
    providers,  \* StorageManager.providers: the Map, as its entries in insertion order
    pc,         \* "new", "ctor_failed", "idle" (no call), "busy" (a call awaits I/O), "done"
    call,       \* the registry call being served: its operation and arguments
    inflight,   \* the provider operations that await a network answer or a timer
    results,    \* uploadFiles: the results pushed so far; healthCheck: the mapping so far
    errors,     \* uploadFiles: the errors pushed so far
    ret,        \* the outcome of the call, once it has returned or thrown
    net,        \* the network requests of the call, in the order they were issued
    waits,      \* the backoff delays (ms) the call has slept, in order
    provCalls,  \* the provider methods the registry has invoked during the call
    now,        \* Date.now(), in ticks since the call began
    obj,        \* the backend's state of the object a delete call names
    round,      \* how many times the client has issued the present delete call
    limiter,    \* the rate limiter of one client address: its KV entry and its requests
    site        \* the upload routes: their settings, the KV file index, the requests served

vars == <<env, providers, pc, call, inflight, results, errors, ret, net, waits,
          provCalls, now, obj, round, limiter, site>>

----------------------------------------------------------------------------
(* JavaScript values *)

Absent == "<absent>"

\* truthiness of a value that is a string or undefined
Truthy(v) == v # Absent /\ v # ""

\* bounds of the model: the files of a batch, the times a delete is repeated
MaxFiles == 3
MaxDeleteRounds == 2

Return(v) == [tag |-> "return", value |-> v]
Throw(e) == [tag |-> "throw", error |-> e]

\* An outcome as the variable ret holds it: a returned string (a URL) or
\* plain object (the health statuses by name) is held under one field, so that
\* the value of every returned outcome is a record.
Held(outcome, field) ==
    IF outcome.tag = "return"
    THEN Return([f \in {field} |-> outcome.value])
    ELSE outcome

\* a || b on strings-or-undefined
OrElse(a, b) == IF Truthy(a) THEN a ELSE b

----------------------------------------------------------------------------
(* Configuration *)

Variants == {"telegram", "s3", "minio", "supabase"}

\* the settings a variant requires
KeysOf(name) ==
    CASE name = "telegram" -> {"TG_Bot_Token", "TG_Chat_ID"}
      [] name = "s3" -> {"AWS_ACCESS_KEY_ID", "AWS_SECRET_ACCESS_KEY", "AWS_S3_BUCKET"}
      [] name = "minio" -> {"MINIO_ENDPOINT", "MINIO_ACCESS_KEY", "MINIO_SECRET_KEY",
                            "MINIO_BUCKET"}
      [] name = "supabase" -> {"SUPABASE_URL", "SUPABASE_ANON_KEY", "SUPABASE_BUCKET"}

ConfigKeys == UNION {KeysOf(name) : name \in Variants} \cup {"DEFAULT_STORAGE_PROVIDER"}

----------------------------------------------------------------------------
(* Provider constructors *)

TelegramStorageNew(e) ==
    IF ~Truthy(e["TG_Bot_Token"]) \/ ~Truthy(e["TG_Chat_ID"])
    THEN Throw([kind |-> "ConfigurationError", provider |-> "telegram"])
    ELSE Return([class |-> "TelegramStorage",
                 botToken |-> e["TG_Bot_Token"], chatId |-> e["TG_Chat_ID"]])

\* An optional text setting of the environment: its characters, or <<>> when
\* the environment does not define it (env.X || default)
Opt(e, k) == IF k \in DOMAIN e THEN e[k] ELSE <<>>

\* the text a || b
OrDefault(a, b) == IF a # <<>> THEN a ELSE b

S3StorageNew(e) ==
    IF ~Truthy(e["AWS_ACCESS_KEY_ID"]) \/ ~Truthy(e["AWS_SECRET_ACCESS_KEY"])
       \/ ~Truthy(e["AWS_S3_BUCKET"])
    THEN Throw([kind |-> "ConfigurationError", provider |-> "s3"])
    ELSE LET region == OrDefault(Opt(e, "AWS_REGION"),
                                  <<"u","s","-","e","a","s","t","-","1">>) IN
         Return([class |-> "S3Storage",
                 accessKeyId |-> e["AWS_ACCESS_KEY_ID"],
                 secretAccessKey |-> e["AWS_SECRET_ACCESS_KEY"],
                 region |-> region,
                 bucket |-> e["AWS_S3_BUCKET"],
                 endpoint |-> OrDefault(Opt(e, "AWS_S3_ENDPOINT"),
                                        <<"h","t","t","p","s",":","/","/","s","3",".">> \o region
                                            \o <<".","a","m","a","z","o","n","a","w","s",".","c","o","m">>),
                 publicUrl |-> OrDefault(Opt(e, "AWS_S3_PUBLIC_URL"),
                                         <<"h","t","t","p","s",":","/","/">> \o <<e["AWS_S3_BUCKET"]>>
                                             \o <<".","s","3",".">> \o region
                                             \o <<".","a","m","a","z","o","n","a","w","s",".","c","o","m">>),
                 \* env.AWS_S3_VIRTUAL_HOST: whether it is defined
                 \* (typeof flag !== 'undefined'), and its text
                 virtualHost |->
                     IF "AWS_S3_VIRTUAL_HOST" \in DOMAIN e
                     THEN [defined |-> TRUE, value |-> e["AWS_S3_VIRTUAL_HOST"]]
                     ELSE [defined |-> FALSE, value |-> <<>>]])

MinIOStorageNew(e) ==
    IF ~Truthy(e["MINIO_ENDPOINT"]) \/ ~Truthy(e["MINIO_ACCESS_KEY"])
       \/ ~Truthy(e["MINIO_SECRET_KEY"]) \/ ~Truthy(e["MINIO_BUCKET"])
    THEN Throw([kind |-> "ConfigurationError", provider |-> "minio"])
    ELSE Return([class |-> "MinIOStorage",
                 endpoint |-> e["MINIO_ENDPOINT"],
                 accessKey |-> e["MINIO_ACCESS_KEY"],
                 secretKey |-> e["MINIO_SECRET_KEY"],
                 bucket |-> e["MINIO_BUCKET"]])

SupabaseStorageNew(e) ==
    IF ~Truthy(e["SUPABASE_URL"]) \/ ~Truthy(e["SUPABASE_ANON_KEY"])
       \/ ~Truthy(e["SUPABASE_BUCKET"])
    THEN Throw([kind |-> "ConfigurationError", provider |-> "supabase"])
    ELSE Return([class |-> "SupabaseStorage",
                 supabaseUrl |-> e["SUPABASE_URL"],
                 anonKey |-> e["SUPABASE_ANON_KEY"],
                 bucket |-> e["SUPABASE_BUCKET"]])

----------------------------------------------------------------------------
(* StorageManager: construction and lookup *)

\* the order in which initializeProviders looks at the variants
VariantOrder == <<"telegram", "s3", "minio", "supabase">>

\* the condition under which initializeProviders instantiates a variant
S3ConfiguredNoBucket(e) ==
    Truthy(e["AWS_ACCESS_KEY_ID"]) /\ Truthy(e["AWS_SECRET_ACCESS_KEY"])

S3Configured(e) ==
    Truthy(e["AWS_ACCESS_KEY_ID"]) /\ Truthy(e["AWS_SECRET_ACCESS_KEY"])
    /\ Truthy(e["AWS_S3_BUCKET"])

Configured(name, e) ==
    CASE name = "telegram" -> Truthy(e["TG_Bot_Token"]) /\ Truthy(e["TG_Chat_ID"])
      [] name = "s3" -> S3Configured(e)
      [] name = "minio" ->
            Truthy(e["MINIO_ENDPOINT"]) /\ Truthy(e["MINIO_ACCESS_KEY"])
            /\ Truthy(e["MINIO_SECRET_KEY"]) /\ Truthy(e["MINIO_BUCKET"])
      [] name = "supabase" ->
            Truthy(e["SUPABASE_URL"]) /\ Truthy(e["SUPABASE_ANON_KEY"])
            /\ Truthy(e["SUPABASE_BUCKET"])

NewProvider(name, e) ==
    CASE name = "telegram" -> TelegramStorageNew(e)
      [] name = "s3" -> S3StorageNew(e)
      [] name = "minio" -> MinIOStorageNew(e)
      [] name = "supabase" -> SupabaseStorageNew(e)

\* Map.set: replaces the entry of an existing key in place, else appends
MapSet(m, k, v) ==
    IF \E i \in 1..Len(m) : m[i].name = k
    THEN [i \in 1..Len(m) |-> IF m[i].name = k THEN [name |-> k, val |-> v] ELSE m[i]]
    ELSE Append(m, [name |-> k, val |-> v])

MapHas(m, k) == \E i \in 1..Len(m) : m[i].name = k

\* Map.get: the instance, or the undefined instance
MapGet(m, k) ==
    IF MapHas(m, k)
    THEN m[CHOOSE i \in 1..Len(m) : m[i].name = k].val
    ELSE [class |-> Absent]

RECURSIVE InitializeFrom(_, _, _)
InitializeFrom(i, e, m) ==
    IF i > Len(VariantOrder) THEN Return(m)
    ELSE LET name == VariantOrder[i] IN
         IF Configured(name, e)
         THEN LET made == NewProvider(name, e) IN
              IF made.tag = "throw" THEN made
              ELSE InitializeFrom(i + 1, e, MapSet(m, name, made.value))
         ELSE InitializeFrom(i + 1, e, m)

\* new StorageManager(env): the providers map, or the constructor's exception
initializeProviders(e) == InitializeFrom(1, e, <<>>)

getAvailableProviders(m) == [i \in 1..Len(m) |-> m[i].name]

getProviderFallback(m, name) ==
    IF MapGet(m, name).class = Absent
    THEN Return(MapGet(m, "telegram"))
    ELSE Return(MapGet(m, name))

getProvider(m, name) ==
    IF MapGet(m, name).class = Absent
    THEN Throw([kind |-> "ProviderNotFound", name |-> name])
    ELSE Return(MapGet(m, name))

----------------------------------------------------------------------------
(* Strings: a string whose characters matter is a sequence of characters *)

UpperCs == <<"A","B","C","D","E","F","G","H","I","J","K","L","M",
             "N","O","P","Q","R","S","T","U","V","W","X","Y","Z">>
LowerCs == <<"a","b","c","d","e","f","g","h","i","j","k","l","m",
             "n","o","p","q","r","s","t","u","v","w","x","y","z">>

LowerChar(c) ==
    IF \E i \in 1..26 : UpperCs[i] = c
    THEN LowerCs[CHOOSE i \in 1..26 : UpperCs[i] = c]
    ELSE c

\* String.prototype.toLowerCase
toLowerCase(s) == [i \in 1..Len(s) |-> LowerChar(s[i])]

SetMax(S) == CHOOSE x \in S : \A y \in S : y <= x
SetMin(S) == CHOOSE x \in S : \A y \in S : x <= y

Indices(s, c) == {i \in 1..Len(s) : s[i] = c}

\* s.split('.').pop(): what follows the last dot, the whole string without one
SplitPop(s) ==
    IF Indices(s, ".") = {} THEN s
    ELSE SubSeq(s, SetMax(Indices(s, ".")) + 1, Len(s))

\* s.startsWith(p)
startsWith(s, p) == Len(s) >= Len(p) /\ SubSeq(s, 1, Len(p)) = p

DigitCs == <<"0","1","2","3","4","5","6","7","8","9">>

\* the decimal digits of a natural number
RECURSIVE Decimal(_)
Decimal(n) ==
    IF n < 10 THEN <<DigitCs[n + 1]>>
    ELSE Append(Decimal(n \div 10), DigitCs[(n % 10) + 1])

----------------------------------------------------------------------------
(* Payloads: the File objects handed to the registry *)

SamplePayloads == <<
    [name |-> <<"a",".","p","n","g">>,
     type |-> <<"i","m","a","g","e","/","p","n","g">>, size |-> 10],
    [name |-> <<"C","l","i","p",".","M","P","4">>,
     type |-> <<"v","i","d","e","o","/","m","p","4">>, size |-> 20],
    [name |-> <<"n","o","t","e","s">>,
     type |-> <<>>, size |-> 0],
    [name |-> <<"d",".","t","x","t">>,
     type |-> <<"t","e","x","t","/","p","l","a","i","n",";"," "," ","c","h","a","r","s","e","t","=","u","t","f","-","8">>, size |-> 5] >>

\* the i-th payload of a batch
Payload(i) == SamplePayloads[((i - 1) % Len(SamplePayloads)) + 1]

\* the batch of the first n payloads
Batch(n) == [i \in 1..n |-> Payload(i)]

----------------------------------------------------------------------------
(* Network answers.  arrived = FALSE: fetch rejected (no HTTP response);     *)
(* parses = FALSE: response.json() rejects; body: the parsed JSON body.      *)

NoBody == [ok |-> FALSE, result |-> "none", id |-> <<>>, message |-> FALSE,
           description |-> <<>>, isNull |-> FALSE]

NetFail == [arrived |-> FALSE, status |-> 0, parses |-> FALSE, body |-> NoBody]

Http(status, parses, body) ==
    [arrived |-> TRUE, status |-> status, parses |-> parses, body |-> body]

\* Response.ok
RespOk(r) == r.arrived /\ r.status >= 200 /\ r.status <= 299

RemotePath == <<"d","o","c","s","/","f","_","1">>
Description == <<"Bad Request: ", "file is too big">>

\* a request as the net log holds it: who sends it, its verb, what it asks for,
\* the file id or object key it names, and the answer once it has settled
Request(name, verb, what, idx, target) ==
    [name |-> name, verb |-> verb, what |-> what, idx |-> idx, target |-> target,
     state |-> "pending", status |-> 0, answer |-> NetFail,
     url |-> <<>>, host |-> <<>>, path |-> <<>>, query |-> <<>>, headers |-> <<>>,
     authorization |-> <<>>]

\* what the bot API can answer to a send
TelegramSendAnswers == {
    NetFail,
    Http(200, FALSE, NoBody),
    Http(200, TRUE, [NoBody EXCEPT !.ok = TRUE, !.result = "document", !.id = <<"B","Q","A","C","1">>]),
    Http(200, TRUE, [NoBody EXCEPT !.ok = TRUE, !.result = "document",
                                   !.id = <<"B","Q",".","A","C">>]),
    Http(200, TRUE, [NoBody EXCEPT !.ok = TRUE, !.result = "empty"]),
    Http(200, TRUE, [NoBody EXCEPT !.ok = FALSE]),
    Http(400, TRUE, [NoBody EXCEPT !.description = Description]),
    Http(400, TRUE, NoBody),
    Http(400, TRUE, [NoBody EXCEPT !.isNull = TRUE]),
    Http(502, FALSE, NoBody) }

\* what an S3-compatible store can answer to a PUT
PutAnswers == {NetFail, Http(200, FALSE, NoBody), Http(403, FALSE, NoBody)}

\* what the REST object store can answer to an upload POST
SupabaseUploadAnswers == {
    NetFail,
    Http(200, TRUE, NoBody),
    Http(200, FALSE, NoBody),
    Http(200, TRUE, [NoBody EXCEPT !.isNull = TRUE]),
    Http(400, TRUE, [NoBody EXCEPT !.message = TRUE]),
    Http(500, FALSE, NoBody) }

----------------------------------------------------------------------------
(* StorageProvider: shared helpers *)

\* what Math.random().toString(36).substring(2, 8) can give
RandomSamples == {<<"k","3","x","9","q","z">>, <<"i">>}

\* generateFileId: `${timestamp}_${random}.${extension}`
generateFileId(originalName, timestamp, random) ==
    Decimal(timestamp) \o <<"_">> \o random \o <<".">>
        \o toLowerCase(SplitPop(originalName))

\* file.type || 'application/octet-stream'
ContentType(file) ==
    IF file.type # <<>> THEN file.type ELSE <<"application/octet-stream">>

----------------------------------------------------------------------------
(* TelegramStorage *)

MAX_RETRIES == 2

\* an endpoint choice that compares the type as it is written
getApiEndpointAsWritten(file) ==
    LET fileType == file.type IN
    IF startsWith(fileType, <<"i","m","a","g","e","/">>)
    THEN [apiEndpoint |-> "sendDocument", formFieldName |-> "document"]
    ELSE IF startsWith(fileType, <<"a","u","d","i","o","/">>)
    THEN [apiEndpoint |-> "sendAudio", formFieldName |-> "audio"]
    ELSE IF startsWith(fileType, <<"v","i","d","e","o","/">>)
    THEN [apiEndpoint |-> "sendVideo", formFieldName |-> "video"]
    ELSE [apiEndpoint |-> "sendDocument", formFieldName |-> "document"]

getApiEndpoint(file) ==
    LET fileType == toLowerCase(file.type) IN
    IF startsWith(fileType, <<"i","m","a","g","e","/">>)
    THEN [apiEndpoint |-> "sendDocument", formFieldName |-> "document"]
    ELSE IF startsWith(fileType, <<"a","u","d","i","o","/">>)
    THEN [apiEndpoint |-> "sendAudio", formFieldName |-> "audio"]
    ELSE IF startsWith(fileType, <<"v","i","d","e","o","/">>)
    THEN [apiEndpoint |-> "sendVideo", formFieldName |-> "video"]
    ELSE [apiEndpoint |-> "sendDocument", formFieldName |-> "document"]

\* retryCount < MAX_RETRIES: whether a failed send is tried again
ShouldRetryOffByOne(retryCount) == retryCount <= MAX_RETRIES

ShouldRetry(retryCount) == retryCount < MAX_RETRIES

\* the sleep before the next send: 1000 * (retryCount + 1)
BackoffDelay(retryCount) == 1000 * (retryCount + 1)

\* (sendToTelegram with every answer but a success sent into the catch)
sendToTelegramRetriesRejection(resp, retryCount) ==
    IF resp.arrived /\ resp.parses /\ RespOk(resp)
    THEN [step |-> "result", success |-> TRUE, data |-> resp.body,
          error |-> <<>>, delay |-> 0]
    ELSE IF ShouldRetry(retryCount)
         THEN [step |-> "retry", success |-> FALSE, data |-> NoBody,
               error |-> <<>>, delay |-> BackoffDelay(retryCount)]
         ELSE [step |-> "result", success |-> FALSE, data |-> NoBody,
               error |-> <<"tg:network">>, delay |-> 0]

\* One pass through sendToTelegram on the answer to its fetch: the result it
\* returns, or the retry it goes into.  An exception inside the try (fetch
\* rejected, response.json() rejected, or responseData.description read on a
\* null body) lands in the catch.
sendToTelegram(resp, retryCount) ==
    IF resp.arrived /\ resp.parses /\ (RespOk(resp) \/ ~resp.body.isNull)
    THEN IF RespOk(resp)
         THEN [step |-> "result", success |-> TRUE, data |-> resp.body,
               error |-> <<>>, delay |-> 0]
         ELSE [step |-> "result", success |-> FALSE, data |-> NoBody,
               error |-> IF resp.body.description # <<>> THEN resp.body.description
                                                         ELSE <<"tg:request_failed">>,
               delay |-> 0]
    ELSE IF ShouldRetry(retryCount)
         THEN [step |-> "retry", success |-> FALSE, data |-> NoBody,
               error |-> <<>>, delay |-> BackoffDelay(retryCount)]
         ELSE [step |-> "result", success |-> FALSE, data |-> NoBody,
               error |-> <<"tg:network">>, delay |-> 0]

\* extractFileId: the remote file id, or <<>> for null
extractFileId(body) ==
    IF ~body.ok \/ body.result = "none" THEN <<>>
    ELSE IF body.result = "document" THEN body.id
    ELSE <<>>

\* TelegramStorage.uploadFile from the result of its send on
TelegramUploadFile(file, sent) ==
    IF ~sent.success THEN Throw(sent.error)
    ELSE IF sent.data.isNull THEN Throw(<<"TypeError">>)
    ELSE LET fileId == extractFileId(sent.data)
             fileKey == fileId \o <<".">> \o toLowerCase(SplitPop(file.name))
         IN IF fileId = <<>> THEN Throw(<<"tg:no_file_id">>)
            ELSE Return([fileId |-> fileKey,
                         originalName |-> file.name,
                         size |-> file.size,
                         type |-> file.type,
                         url |-> <<"/file/">> \o fileKey,
                         telegramFileId |-> fileId,
                         provider |-> "telegram"])

----------------------------------------------------------------------------
(* S3Storage: addressing and Signature Version 4 *)

\* the strings of S as Array.prototype.sort() orders them: by the character
\* codes of the characters that occur in header names, hosts and keys
RECURSIVE SortStrings(_)
SortStrings(S) ==
    LET AsciiOrder == <<" ", "-", ".", "/">> \o DigitCs \o <<":", ";", "=">> \o UpperCs
                      \o <<"_">> \o LowerCs
        CharCode(c) == CHOOSE i \in 1..Len(AsciiOrder) : AsciiOrder[i] = c
        LexLess(a, b) ==
            \E i \in 1..(Len(b)) :
                /\ i <= Len(a) + 1
                /\ \A j \in 1..(i - 1) : a[j] = b[j]
                /\ (i <= Len(a) => CharCode(a[i]) < CharCode(b[i]))
    IN IF S = {} THEN <<>>
       ELSE LET m == CHOOSE x \in S : \A y \in S \ {x} : LexLess(x, y)
            IN <<m>> \o SortStrings(S \ {m})

\* parts.join(sep)
RECURSIVE Join(_, _)
Join(parts, sep) ==
    IF parts = <<>> THEN <<>>
    ELSE IF Len(parts) = 1 THEN parts[1]
    ELSE parts[1] \o sep \o Join(Tail(parts), sep)

\* crypto.subtle.digest('SHA-256', ...) as hex, HMAC-SHA256 and toHex, as terms:
\* equal terms are equal bytes, and different terms different bytes
sha256(data) == <<"sha256(">> \o data \o <<")">>
hmacSha256(key, data) == <<"hmac(">> \o key \o <<";">> \o data \o <<")">>
toHex(bytes) == <<"hex(">> \o bytes \o <<")">>

\* new URL(endpoint).host of an endpoint scheme://host[/...]
UrlHost(url) ==
    LET start == SetMin(Indices(url, ":")) + 3
        ends == {i \in Indices(url, "/") : i >= start}
        stop == IF ends = {} THEN Len(url) ELSE SetMin(ends) - 1
    IN toLowerCase(SubSeq(url, start, stop))

\* /(^|\.)s3[.-][a-z0-9-]+\.amazonaws\.com$/i.test(host)
IsAwsDefault(host) ==
    LET h == toLowerCase(host)
        tail == <<".","a","m","a","z","o","n","a","w","s",".","c","o","m">>
        n == Len(h)
        stop == n - Len(tail)
    IN \E i \in 1..n :
        /\ i = 1 \/ h[i - 1] = "."
        /\ i + 3 <= stop
        /\ h[i] = "s" /\ h[i + 1] = "3" /\ h[i + 2] \in {".", "-"}
        /\ \A j \in (i + 3)..stop :
              h[j] \in {LowerCs[k] : k \in 1..Len(LowerCs)}
                       \cup {DigitCs[k] : k \in 1..Len(DigitCs)} \cup {"-"}
        /\ SubSeq(h, stop + 1, n) = tail

\* shouldUseVirtualHost
shouldUseVirtualHost(inst) ==
    IF inst.virtualHost.defined
    THEN toLowerCase(inst.virtualHost.value) # <<"f","a","l","s","e">>
    ELSE IsAwsDefault(UrlHost(inst.endpoint))

\* path.replace(/\/+$/, '/'): a run of slashes at the end becomes one slash
CollapseTrailingSlashes(path) ==
    LET run == {i \in 1..Len(path) : \A j \in i..Len(path) : path[j] = "/"} IN
    IF run = {} THEN path
    ELSE SubSeq(path, 1, SetMin(run) - 1) \o <<"/">>

\* buildRequest(method, key, query); query is the canonical query string
buildRequest(inst, key, query) ==
    LET endpointHost == UrlHost(inst.endpoint)
        protocol == SubSeq(inst.endpoint, 1, SetMin(Indices(inst.endpoint, ":")))
        useVirtual == shouldUseVirtualHost(inst)
        host == IF useVirtual THEN <<inst.bucket, ".">> \o endpointHost
                              ELSE endpointHost
        path == IF useVirtual
                THEN CollapseTrailingSlashes(<<"/">> \o key)
                ELSE CollapseTrailingSlashes(<<"/", inst.bucket, "/">> \o key)
    IN [url |-> protocol \o <<"/", "/">> \o host \o path
                \o (IF query # <<>> THEN <<"?">> \o query ELSE <<>>),
        host |-> host,
        canonicalUri |-> path,
        canonicalQueryString |-> query]

\* a header of a request
Header(name, value) == [name |-> name, value |-> value]

\* headers[name]
HeaderValue(headers, name) ==
    headers[SetMin({i \in 1..Len(headers) : headers[i].name = name})].value

\* getSignatureKey
getSignatureKey(key, dateStamp, regionName, serviceName) ==
    LET kDate == hmacSha256(<<"A","W","S","4">> \o key, dateStamp)
        kRegion == hmacSha256(kDate, regionName)
        kService == hmacSha256(kRegion, serviceName)
    IN hmacSha256(kService, <<"a","w","s","4","_","r","e","q","u","e","s","t">>)

\* generateSignature: the Authorization header
generateSignature(inst, method, canonicalUri, canonicalQueryString, headers, dateStamp) ==
    LET service == <<"s", "3">>
        algorithm == <<"A","W","S","4","-","H","M","A","C","-","S","H","A","2","5","6">>
        credentialScope ==
            dateStamp \o <<"/">> \o inst.region \o <<"/">> \o service \o <<"/">> \o <<"a","w","s","4","_","r","e","q","u","e","s","t">>
        names == SortStrings({toLowerCase(headers[i].name) : i \in 1..Len(headers)})
        valueOf(h) ==
            headers[SetMin({i \in 1..Len(headers) :
                               toLowerCase(headers[i].name) = h})].value
        signedHeaders == Join(names, <<";">>)
        canonicalHeaders ==
            Join([i \in 1..Len(names) |->
                     names[i] \o <<":">> \o valueOf(names[i])
                         \o <<"\n">>], <<>>)
        payloadHash == HeaderValue(headers, <<"x","-","a","m","z","-","c","o","n","t","e","n","t","-","s","h","a","2","5","6">>)
        canonicalRequest ==
            Join(<<method, canonicalUri, canonicalQueryString, canonicalHeaders,
                   signedHeaders, payloadHash>>, <<"\n">>)
        stringToSign ==
            Join(<<algorithm, HeaderValue(headers, <<"x","-","a","m","z","-","d","a","t","e">>), credentialScope,
                   sha256(canonicalRequest)>>, <<"\n">>)
        signingKey == getSignatureKey(<<inst.secretAccessKey>>, dateStamp,
                                      inst.region, service)
        signatureHex == toHex(hmacSha256(signingKey, stringToSign))
    IN algorithm \o <<" ","C","r","e","d","e","n","t","i","a","l","=">> \o <<inst.accessKeyId, "/">> \o credentialScope
           \o <<","," ","S","i","g","n","e","d","H","e","a","d","e","r","s","=">> \o signedHeaders \o <<","," ","S","i","g","n","a","t","u","r","e","=">> \o signatureHex

\* new Date().toISOString().replace(/[:\-]|\.\d{3}/g, '') at t milliseconds
\* past the epoch, within its first hour
AmzDate(t) ==
    LET Pad2(n) == IF n < 10 THEN <<"0">> \o Decimal(n) ELSE Decimal(n) IN
    <<"1","9","7","0","0","1","0","1","T","0","0">> \o Pad2((t \div 60000) % 60) \o Pad2((t \div 1000) % 60) \o <<"Z">>

\* a request whose last header is added after signing
SignedBeforeLastHeader(inst, method, r, headers, date) ==
    [host |-> r.host, path |-> r.canonicalUri, query |-> r.canonicalQueryString,
     url |-> r.url, headers |-> headers,
     authorization |-> generateSignature(inst, method, r.canonicalUri,
                                         r.canonicalQueryString,
                                         SubSeq(headers, 1, Len(headers) - 1),
                                         SubSeq(date, 1, 8))]

\* what fetch is given: the URL's host and path, the headers, and the
\* Authorization header among them
Signed(inst, method, r, headers, date) ==
    [host |-> r.host, path |-> r.canonicalUri, query |-> r.canonicalQueryString,
     url |-> r.url, headers |-> headers,
     authorization |-> generateSignature(inst, method, r.canonicalUri,
                                         r.canonicalQueryString, headers,
                                         SubSeq(date, 1, 8))]

\* putObject sending the ACL header only when options.public is truthy
S3PutRequestAclIfTruthy(inst, key, file, public, t) ==
    LET r == buildRequest(inst, key, <<>>)
        date == AmzDate(t)
        headers == <<Header(<<"C","o","n","t","e","n","t","-","T","y","p","e">>, ContentType(file)),
                     Header(<<"C","o","n","t","e","n","t","-","L","e","n","g","t","h">>, Decimal(file.size)),
                     Header(<<"H","o","s","t">>, r.host),
                     Header(<<"x","-","a","m","z","-","d","a","t","e">>, date),
                     Header(<<"x","-","a","m","z","-","c","o","n","t","e","n","t","-","s","h","a","2","5","6">>, sha256(<<"{body}">>))>>
    IN Signed(inst, <<"PUT">>, r,
              IF public \in {"<true>", "false"}
              THEN Append(headers, Header(<<"x","-","a","m","z","-","a","c","l">>, <<"p","u","b","l","i","c","-","r","e","a","d">>))
              ELSE headers,
              date)

\* putObject, up to its fetch; public is options.public
S3PutRequest(inst, key, file, public, t) ==
    LET r == buildRequest(inst, key, <<>>)
        date == AmzDate(t)
        headers == <<Header(<<"C","o","n","t","e","n","t","-","T","y","p","e">>, ContentType(file)),
                     Header(<<"C","o","n","t","e","n","t","-","L","e","n","g","t","h">>, Decimal(file.size)),
                     Header(<<"H","o","s","t">>, r.host),
                     Header(<<"x","-","a","m","z","-","d","a","t","e">>, date),
                     Header(<<"x","-","a","m","z","-","c","o","n","t","e","n","t","-","s","h","a","2","5","6">>, sha256(<<"{body}">>))>>
    IN Signed(inst, <<"PUT">>, r,
              IF public # "<false>"
              THEN Append(headers, Header(<<"x","-","a","m","z","-","a","c","l">>, <<"p","u","b","l","i","c","-","r","e","a","d">>))
              ELSE headers,
              date)

\* the headers of a request without a body
S3BareHeaders(r, date) ==
    <<Header(<<"H","o","s","t">>, r.host), Header(<<"x","-","a","m","z","-","d","a","t","e">>, date), Header(<<"x","-","a","m","z","-","c","o","n","t","e","n","t","-","s","h","a","2","5","6">>, sha256(<<>>))>>

\* deleteFile, up to its fetch
S3DeleteRequest(inst, fileId, t) ==
    LET r == buildRequest(inst, fileId, <<>>) IN
    Signed(inst, <<"DELETE">>, r, S3BareHeaders(r, AmzDate(t)), AmzDate(t))

\* healthCheck, up to its fetch
S3HealthRequest(inst, t) ==
    LET query == <<Header(<<"m","a","x","-","k","e","y","s">>, <<"1">>)>>
        \* sorted.map(k => `${encodeURIComponent(k)}=${encodeURIComponent(query[k])}`)
        \* .join('&'); encodeURIComponent changes none of these characters
        canonical == Join([i \in 1..Len(query) |->
                              query[i].name \o <<"=">> \o query[i].value], <<"&">>)
        r == buildRequest(inst, <<>>, canonical) IN
    Signed(inst, <<"GET">>, r, S3BareHeaders(r, AmzDate(t)), AmzDate(t))

\* MinIOStorage: the host and path of `${baseUrl}/${bucket}/${key}`, with the
\* port left at its default
MinIOAddress(inst, key) ==
    [host |-> <<inst.endpoint>>, path |-> <<"/", inst.bucket, "/">> \o key]

\* the Date and Host headers of deleteFile and healthCheck: new
\* Date().toUTCString() at t milliseconds past the epoch, within its first hour
MinIOBareHeaders(inst, t) ==
    LET Pad2(n) == IF n < 10 THEN <<"0">> \o Decimal(n) ELSE Decimal(n) IN
    <<Header(<<"D","a","t","e">>,
             <<"T","h","u",","," ","0","1"," ","J","a","n"," ","1","9","7","0"," ","0","0",":">>
                 \o Pad2((t \div 60000) % 60) \o <<":">> \o Pad2((t \div 1000) % 60)
                 \o <<" ","G","M","T">>),
      Header(<<"H","o","s","t">>, MinIOAddress(inst, <<>>).host)>>

\* the headers putObject has when it signs: the metadata entries follow the
\* four fixed ones, each under x-amz-meta-<key> with the key as given
MinIOPutHeaders(inst, key, file, metadata, t) ==
    <<Header(<<"C","o","n","t","e","n","t","-","T","y","p","e">>, ContentType(file)),
      Header(<<"C","o","n","t","e","n","t","-","L","e","n","g","t","h">>, Decimal(file.size))>>
        \o MinIOBareHeaders(inst, t)
        \o [i \in 1..Len(metadata) |->
               Header(<<"x","-","a","m","z","-","m","e","t","a","-">> \o metadata[i].name,
                      metadata[i].value)]

\* generateAuthorization: 'AWS ' + accessKey + ':' + the HMAC-SHA1 of the
\* string to sign in base64, as a term
generateAuthorization(inst, method, key, headers) ==
    LET contentMD5 == <<>>
        given(name) == {i \in 1..Len(headers) : headers[i].name = name}
        contentType == IF given(<<"C","o","n","t","e","n","t","-","T","y","p","e">>) = {}
                       THEN <<>>
                       ELSE HeaderValue(headers, <<"C","o","n","t","e","n","t","-","T","y","p","e">>)
        date == HeaderValue(headers, <<"D","a","t","e">>)
        \* Object.keys(headers).filter(...).sort(): the names are sorted as given
        sorted == SortStrings({headers[i].name : i \in
                     {i \in 1..Len(headers) :
                         startsWith(toLowerCase(headers[i].name), <<"x","-","a","m","z","-">>)}})
        amzHeaders == Join([i \in 1..Len(sorted) |->
                               toLowerCase(sorted[i]) \o <<":">> \o HeaderValue(headers, sorted[i])],
                           <<"\n">>)
        canonicalizedAmzHeaders == IF amzHeaders # <<>> THEN amzHeaders \o <<"\n">> ELSE <<>>
        canonicalizedResource == <<"/", inst.bucket, "/">> \o key
        stringToSign == Join(<<method, contentMD5, contentType, date,
                               canonicalizedAmzHeaders \o canonicalizedResource>>, <<"\n">>)
    IN <<"A","W","S"," ", inst.accessKey, ":", "hmacSha1(", inst.secretKey, ";">>
           \o stringToSign \o <<")">>

----------------------------------------------------------------------------
(* S3Storage, MinIOStorage: upload *)

\* putObject: the etag, or the exception
PutObject(resp, failure) ==
    IF ~resp.arrived THEN Throw(<<"net:failed">>)
    ELSE IF ~RespOk(resp) THEN Throw(<<failure, "status">>)
    ELSE Return("etag")

S3UploadFile(file, key, inst, resp) ==
    LET put == PutObject(resp, "s3:put_failed") IN
    IF put.tag = "throw" THEN Throw(<<"s3:upload_failed">> \o put.error)
    ELSE Return([fileId |-> key,
                 originalName |-> file.name,
                 size |-> file.size,
                 type |-> ContentType(file),
                 url |-> inst.publicUrl \o <<"/">> \o key,
                 provider |-> "s3",
                 bucket |-> inst.bucket,
                 key |-> key,
                 etag |-> put.value])

MinIOUploadFile(file, key, inst, resp) ==
    LET put == PutObject(resp, "minio:put_failed") IN
    IF put.tag = "throw" THEN Throw(<<"minio:upload_failed">> \o put.error)
    ELSE Return([fileId |-> key,
                 originalName |-> file.name,
                 size |-> file.size,
                 type |-> ContentType(file),
                 url |-> <<"{minio.baseUrl}", "/", "{minio.bucket}", "/">> \o key,
                 provider |-> "minio",
                 bucket |-> inst.bucket,
                 key |-> key,
                 etag |-> put.value])

----------------------------------------------------------------------------
(* SupabaseStorage: upload *)

\* uploadToSupabase: the parsed answer, or the exception
uploadToSupabase(resp) ==
    IF ~resp.arrived THEN Throw(<<"net:failed">>)
    ELSE IF ~RespOk(resp)
    THEN Throw(<<"supabase:upload_failed", "status",
                 IF resp.parses /\ resp.body.message THEN "message" ELSE "statusText">>)
    ELSE IF ~resp.parses THEN Throw(<<"SyntaxError">>)
    ELSE Return(resp.body)

getPublicUrl(path) ==
    <<"{supabaseUrl}", "/storage/v1/object/public/", "{supabase.bucket}", "/">> \o path

SupabaseUploadFile(file, path, inst, resp) ==
    LET up == uploadToSupabase(resp) IN
    IF up.tag = "throw" THEN Throw(<<"supabase:upload_failed">> \o up.error)
    ELSE IF up.value.isNull THEN Throw(<<"supabase:upload_failed", "TypeError">>)
    ELSE Return([fileId |-> path,
                 originalName |-> file.name,
                 size |-> file.size,
                 type |-> ContentType(file),
                 url |-> getPublicUrl(path),
                 provider |-> "supabase",
                 bucket |-> inst.bucket,
                 path |-> path,
                 key |-> path])

----------------------------------------------------------------------------
(* The state of a registry that serves no call *)

NoCall == [op |-> "none", files |-> <<>>, provider |-> Absent, fileName |-> <<>>,
           prefix |-> <<>>, public |-> Absent, metadata |-> <<>>, fileId |-> <<>>,
           name |-> Absent,
           signed |-> FALSE]
NoOutcome == [tag |-> "none"]

Quiet ==
    /\ call = NoCall
    /\ inflight = {}
    /\ results = <<>>
    /\ errors = <<>>
    /\ ret = NoOutcome
    /\ net = <<>>
    /\ waits = <<>>
    /\ provCalls = <<>>
    /\ now = 0
    /\ obj = "none"
    /\ round = 0

----------------------------------------------------------------------------
(* Construction *)

Construct ==
    /\ pc = "new"
    /\ LET made == initializeProviders(env) IN
       IF made.tag = "throw"
       THEN /\ pc' = "ctor_failed"
            /\ providers' = <<>>
       ELSE /\ pc' = "idle"
            /\ providers' = made.value
    /\ UNCHANGED <<env, call, inflight, results, errors, ret, net, waits,
                   provCalls, now, obj, round>>

----------------------------------------------------------------------------
(* StorageManager.uploadFile and uploadFiles *)

\* options.provider || this.env.DEFAULT_STORAGE_PROVIDER || 'telegram'
ResolveNameNoDefault(provider, e) == OrElse(provider, "telegram")

ResolveName(provider, e) ==
    OrElse(provider, OrElse(e["DEFAULT_STORAGE_PROVIDER"], "telegram"))

\* { ...result, provider: providerName, timestamp: Date.now() }
Stamp(result, providerName, timestamp) ==
    [k \in DOMAIN result \cup {"provider", "timestamp"} |->
        IF k = "provider" THEN providerName
        ELSE IF k = "timestamp" THEN timestamp
        ELSE result[k]]

\* uploadFile after the provider's uploadFile has settled: the try and its catch
UploadFileSettledSwallow(providerName, settled, timestamp) ==
    IF settled.tag = "return"
    THEN Return(Stamp(settled.value, providerName, timestamp))
    ELSE Return([provider |-> providerName, timestamp |-> timestamp])

UploadFileSettled(providerName, settled, timestamp) ==
    IF settled.tag = "return"
    THEN Return(Stamp(settled.value, providerName, timestamp))
    ELSE Throw([kind |-> "UploadFailed", provider |-> providerName,
                cause |-> settled.error])

\* the entry uploadFiles pushes to errors for a file whose uploadFile threw
ErrorEntry(file, thrown) == [fileName |-> file.name, error |-> thrown.error]

\* the summary uploadFiles returns
Summary(files, rs, es) ==
    [success |-> rs, errors |-> es, total |-> Len(files),
     successCount |-> Len(rs), errorCount |-> Len(es)]

\* uploadFiles: the files whose upload is begun when the loop reaches position k
\* (for ... of with await: one at a time)
LoopStartsAll(n, k) == IF k = 1 THEN 1..n ELSE {}

LoopStarts(n, k) == IF k <= n THEN {k} ELSE {}

\* uploadFiles: the position the loop goes to after the file at position k has
\* settled as out; the catch in the loop body keeps a failure from ending it
LoopAfterEndsOnFailure(n, k, out) == IF out.tag = "throw" THEN n + 1 ELSE k + 1

LoopAfter(n, k, out) == k + 1

\* the request a provider's uploadFile issues first
UploadRequest(name, inst, file, idx, key, options, t) ==
    LET req == Request(name,
                       IF name \in {"s3", "minio"} THEN "PUT" ELSE "POST",
                       IF name = "telegram" THEN getApiEndpoint(file).apiEndpoint
                                            ELSE "object",
                       idx, key) IN
    IF inst.class = "S3Storage"
    THEN LET put == S3PutRequest(inst, key, file, options.public, t) IN
         [req EXCEPT !.url = put.url, !.host = put.host, !.path = put.path,
                     !.headers = put.headers,
                     !.authorization = put.authorization]
    ELSE IF inst.class = "MinIOStorage"
    THEN LET headers == MinIOPutHeaders(inst, key, file, options.metadata, t) IN
         [req EXCEPT !.host = MinIOAddress(inst, key).host,
                     !.path = MinIOAddress(inst, key).path,
                     !.headers = headers,
                     !.authorization =
                        generateAuthorization(inst, <<"PUT">>, key, headers)]
    ELSE IF inst.class = "SupabaseStorage"
    THEN \* `${this.baseUrl}/object/${this.bucket}/${path}`
         [req EXCEPT !.host = <<inst.supabaseUrl>>,
                     !.path = <<"/storage/v1", "/object/", inst.bucket, "/">> \o key]
    ELSE req

\* the provider upload of file idx, begun at time t with random string rnd
NewUpload(idx, name, file, fileName, prefix, t, rnd, req) ==
    LET \* options.fileName || this.generateFileId(file.name)
        objectName == IF fileName # <<>> THEN fileName
                      ELSE generateFileId(file.name, t, rnd)
        \* options.prefix ? `${options.prefix}/${fileName}` : fileName
        objectKey == IF prefix # <<>> THEN prefix \o <<"/">> \o objectName
                     ELSE objectName
    IN [kind |-> "upload", idx |-> idx, name |-> name, stage |-> "net",
        retryCount |-> 0, req |-> req,
        key |-> IF name = "telegram" THEN <<>> ELSE objectKey]

\* the set S as the sequence of its elements in increasing order
RECURSIVE Ascending(_)
Ascending(S) ==
    IF S = {} THEN <<>>
    ELSE <<SetMin(S)>> \o Ascending(S \ {SetMin(S)})

\* the log of provider calls with the call of method on file idx settled as tag
Settled(calls, method, idx, tag) ==
    [i \in 1..Len(calls) |->
        IF calls[i].method = method /\ calls[i].idx = idx
        THEN [calls[i] EXCEPT !.settled = tag] ELSE calls[i]]

\* the net log with request i answered by resp
Answered(log, i, resp) ==
    [log EXCEPT ![i].state = IF resp.arrived THEN "answered" ELSE "failed",
                ![i].status = resp.status,
                ![i].answer = resp]

\* Begin the provider uploads of the files in S (their positions in call'.files),
\* each with the random string rnd.  net and waits log the provider operations
\* now in progress: they start afresh when an upload begins, and keep the
\* log of the last one when none does.
BeginUploads(S, name, log, calls, rnd, kept) ==
    LET order == Ascending(S)
        up(j) == NewUpload(order[j], name, call'.files[order[j]], call'.fileName,
                           call'.prefix, now', rnd, j) IN
    /\ inflight' = kept \cup {up(j) : j \in 1..Len(order)}
    /\ net' = IF S = {} THEN log
              ELSE [j \in 1..Len(order) |->
                        UploadRequest(name, MapGet(providers, name),
                                      call'.files[order[j]], order[j], up(j).key,
                                      call', now')]
    /\ waits' = IF S = {} THEN waits ELSE <<>>
    /\ provCalls' = calls \o
         [j \in 1..Len(order) |-> [name |-> name, method |-> "uploadFile",
                                   idx |-> order[j], settled |-> "pending"]]

StartUploadFile(i, provider, fileName, prefix, public, metadata, rnd) ==
    /\ pc = "idle"
    /\ call' = [NoCall EXCEPT !.op = "uploadFile", !.files = <<Payload(i)>>,
                              !.provider = provider, !.fileName = fileName,
                              !.prefix = prefix, !.public = public,
                              !.metadata = metadata]
    /\ now' = 0
    /\ LET name == ResolveName(provider, env)
           found == getProvider(providers, name) IN
       IF found.tag = "throw"
       THEN /\ ret' = found
            /\ pc' = "done"
            /\ UNCHANGED <<inflight, net, waits, provCalls>>
       ELSE /\ BeginUploads({1}, name, <<>>, <<>>, rnd, {})
            /\ ret' = NoOutcome
            /\ pc' = "busy"
    /\ UNCHANGED <<env, providers, results, errors, obj, round>>

StartUploadFiles(n, provider, rnd) ==
    /\ pc = "idle"
    /\ call' = [NoCall EXCEPT !.op = "uploadFiles", !.files = Batch(n),
                              !.provider = provider]
    /\ now' = 0
    /\ LET name == ResolveName(provider, env)
           found == getProvider(providers, name) IN
       IF found.tag = "throw"
       THEN /\ errors' = [k \in 1..n |-> ErrorEntry(Payload(k), found)]
            /\ ret' = Return(Summary(Batch(n), <<>>, errors'))
            /\ pc' = "done"
            /\ UNCHANGED <<inflight, net, waits, provCalls>>
       ELSE IF n = 0
       THEN /\ ret' = Return(Summary(<<>>, <<>>, <<>>))
            /\ pc' = "done"
            /\ UNCHANGED <<inflight, net, waits, provCalls, errors>>
       ELSE /\ BeginUploads(LoopStarts(n, 1), name, <<>>, <<>>, rnd, {})
            /\ ret' = NoOutcome
            /\ pc' = "busy"
            /\ UNCHANGED errors
    /\ UNCHANGED <<env, providers, results, obj, round>>

\* The provider upload u has settled: uploadFile stamps or wraps the outcome;
\* uploadFiles records it and goes on with the loop.
SettleUpload(u, settled, log, rnd) ==
    LET out == UploadFileSettled(u.name, settled, now')
        rest == inflight \ {u}
        calls == Settled(provCalls, "uploadFile", u.idx, settled.tag)
        n == Len(call.files) IN
    /\ call' = call
    /\ now' = now + 1
    /\ IF call.op = "uploadFile"
       THEN /\ ret' = out
            /\ pc' = "done"
            /\ inflight' = rest
            /\ net' = log
            /\ provCalls' = calls
            /\ UNCHANGED <<results, errors, waits>>
       ELSE /\ results' = IF out.tag = "return" THEN Append(results, out.value)
                                                ELSE results
            /\ errors' = IF out.tag = "throw"
                         THEN Append(errors, ErrorEntry(call.files[u.idx], out))
                         ELSE errors
            /\ BeginUploads(LoopStarts(n, LoopAfter(n, u.idx, out)), u.name, log, calls,
                            rnd, rest)
            /\ IF inflight' = {}
               THEN /\ ret' = Return(Summary(call.files, results', errors'))
                    /\ pc' = "done"
               ELSE /\ ret' = NoOutcome
                    /\ pc' = "busy"

ClassOf(name) == MapGet(providers, name).class

\* the bot API answers the send of upload u (or the fetch fails)
AnswerTelegramSend(u, resp) ==
    /\ pc = "busy"
    /\ u \in inflight
    /\ u.kind = "upload" /\ u.stage = "net"
    /\ ClassOf(u.name) = "TelegramStorage"
    /\ LET sent == sendToTelegram(resp, u.retryCount)
           log == Answered(net, u.req, resp) IN
       IF sent.step = "retry"
       THEN /\ inflight' = (inflight \ {u}) \cup {[u EXCEPT !.stage = "backoff"]}
            /\ waits' = Append(waits, sent.delay)
            /\ net' = log
            /\ UNCHANGED <<call, results, errors, ret, pc, provCalls, now>>
       ELSE SettleUpload(u, TelegramUploadFile(call.files[u.idx], sent), log, <<>>)
    /\ UNCHANGED <<env, providers, obj, round>>

\* the backoff sleep of upload u is over: sendToTelegram calls itself with
\* retryCount + 1 and sends again
BackoffElapsed(u) ==
    /\ pc = "busy"
    /\ u \in inflight
    /\ u.kind = "upload" /\ u.stage = "backoff"
    /\ inflight' = (inflight \ {u}) \cup
          {[u EXCEPT !.stage = "net", !.retryCount = u.retryCount + 1,
                     !.req = Len(net) + 1]}
    /\ net' = Append(net, UploadRequest(u.name, MapGet(providers, u.name),
                                        call.files[u.idx], u.idx, u.key, call,
                                        now))
    /\ UNCHANGED <<env, providers, pc, call, results, errors, ret, waits,
                   provCalls, now, obj, round>>

\* the object store answers the PUT of upload u (or the fetch fails)
AnswerPut(u, resp, rnd) ==
    /\ pc = "busy"
    /\ u \in inflight
    /\ u.kind = "upload" /\ u.stage = "net"
    /\ ClassOf(u.name) \in {"S3Storage", "MinIOStorage"}
    /\ LET file == call.files[u.idx]
           inst == MapGet(providers, u.name)
           settled == IF inst.class = "S3Storage"
                      THEN S3UploadFile(file, u.key, inst, resp)
                      ELSE MinIOUploadFile(file, u.key, inst, resp) IN
       SettleUpload(u, settled, Answered(net, u.req, resp), rnd)
    /\ UNCHANGED <<env, providers, obj, round>>

\* the REST object store answers the POST of upload u (or the fetch fails)
AnswerSupabaseUpload(u, resp, rnd) ==
    /\ pc = "busy"
    /\ u \in inflight
    /\ u.kind = "upload" /\ u.stage = "net"
    /\ ClassOf(u.name) = "SupabaseStorage"
    /\ SettleUpload(u, SupabaseUploadFile(call.files[u.idx], u.key,
                                          MapGet(providers, u.name), resp),
                    Answered(net, u.req, resp), rnd)
    /\ UNCHANGED <<env, providers, obj, round>>

\* the caller has its outcome; the registry serves the next call
Finish ==
    /\ pc = "done"
    /\ pc' = "idle"
    /\ call' = NoCall
    /\ inflight' = {}
    /\ results' = <<>>
    /\ errors' = <<>>
    /\ ret' = NoOutcome
    /\ net' = <<>>
    /\ waits' = <<>>
    /\ provCalls' = <<>>
    /\ now' = 0
    /\ obj' = "none"
    /\ round' = 0
    /\ UNCHANGED <<env, providers>>

----------------------------------------------------------------------------
(* deleteFile of the four providers *)

\* the try block of S3Storage.deleteFile and of MinIOStorage.deleteFile
ObjectStoreDeleteTry(resp) ==
    IF ~resp.arrived THEN Throw(<<"net:failed">>)
    ELSE IF RespOk(resp) \/ resp.status = 404
    THEN Return([success |-> TRUE, message |-> <<"deleted">>])
    ELSE Throw(<<"delete_failed", "status", "text">>)

\* the try block of SupabaseStorage.deleteFile
SupabaseDeleteTry(resp) ==
    IF ~resp.arrived THEN Throw(<<"net:failed">>)
    ELSE IF RespOk(resp)
    THEN Return([success |-> TRUE, message |-> <<"deleted">>])
    ELSE IF resp.parses /\ resp.body.isNull THEN Throw(<<"TypeError">>)
    ELSE Throw(<<"delete_failed", "status",
                 IF resp.parses /\ resp.body.message THEN "message" ELSE "statusText">>)

\* catch (error) { return { success: false, message: error.message } }
CatchDelete(tried) ==
    IF tried.tag = "throw"
    THEN Return([success |-> FALSE, message |-> tried.error])
    ELSE tried

S3DeleteFileNoCatch(resp) == ObjectStoreDeleteTry(resp)

S3DeleteFile(resp) == CatchDelete(ObjectStoreDeleteTry(resp))

MinIODeleteFile(resp) == CatchDelete(ObjectStoreDeleteTry(resp))

SupabaseDeleteFile(resp) == CatchDelete(SupabaseDeleteTry(resp))

TelegramDeleteFile == Return([success |-> FALSE, message |-> <<"tg:delete_unsupported">>])

ProviderDeleteFile(class, resp) ==
    CASE class = "S3Storage" -> S3DeleteFile(resp)
      [] class = "MinIOStorage" -> MinIODeleteFile(resp)
      [] class = "SupabaseStorage" -> SupabaseDeleteFile(resp)
      [] class = "TelegramStorage" -> TelegramDeleteFile

\* failures any request can meet
FailureAnswers == {
    NetFail,
    Http(500, FALSE, NoBody),
    Http(500, TRUE, [NoBody EXCEPT !.message = TRUE]),
    Http(500, TRUE, [NoBody EXCEPT !.isNull = TRUE]) }

\* what a store answers to a DELETE: the object is removed if it is there,
\* and a 404-equivalent says that it is not
DeleteAnswers(o) ==
    FailureAnswers \cup
    IF o = "present" THEN {Http(204, FALSE, NoBody)}
    ELSE {Http(404, TRUE, [NoBody EXCEPT !.message = TRUE]), Http(404, FALSE, NoBody)}

----------------------------------------------------------------------------
(* StorageManager.deleteFile *)

FileIdArgs == {<<"1","_","k",".","p","n","g">>}

\* the request a provider's deleteFile issues
DeleteRequest(name, inst, fileId, t) ==
    LET req == Request(name, "DELETE", "object", 0, fileId) IN
    IF inst.class = "S3Storage"
    THEN LET del == S3DeleteRequest(inst, fileId, t) IN
         [req EXCEPT !.url = del.url, !.host = del.host, !.path = del.path,
                     !.headers = del.headers,
                     !.authorization = del.authorization]
    ELSE IF inst.class = "MinIOStorage"
    THEN LET headers == MinIOBareHeaders(inst, t) IN
         [req EXCEPT !.host = MinIOAddress(inst, fileId).host,
                     !.path = MinIOAddress(inst, fileId).path,
                     !.headers = headers,
                     !.authorization =
                        generateAuthorization(inst, <<"DELETE">>, fileId, headers)]
    ELSE IF inst.class = "SupabaseStorage"
    THEN \* `${this.baseUrl}/object/${this.bucket}/${fileId}`
         [req EXCEPT !.host = <<inst.supabaseUrl>>,
                     !.path = <<"/storage/v1", "/object/", inst.bucket, "/">> \o fileId]
    ELSE req

\* deleteFile(fileId, providerName), from its lookup to its first await
IssueDelete(fileId, name) ==
    LET found == getProvider(providers, name) IN
    IF found.tag = "throw"
    THEN /\ ret' = found
         /\ pc' = "done"
         /\ inflight' = {}
         /\ net' = <<>>
         /\ provCalls' = <<>>
    ELSE /\ provCalls' = <<[name |-> name, method |-> "deleteFile", idx |-> 0,
                            settled |-> IF found.value.class = "TelegramStorage"
                                        THEN "return" ELSE "pending"]>>
         /\ IF found.value.class = "TelegramStorage"
            THEN /\ ret' = TelegramDeleteFile
                 /\ pc' = "done"
                 /\ inflight' = {}
                 /\ net' = <<>>
            ELSE /\ ret' = NoOutcome
                 /\ pc' = "busy"
                 /\ inflight' = {[kind |-> "delete", idx |-> 0, name |-> name,
                                  stage |-> "net", retryCount |-> 0, req |-> 1,
                                  key |-> fileId]}
                 /\ net' = <<DeleteRequest(name, found.value, fileId, now)>>

StartDeleteFile(fileId, name, o) ==
    /\ pc = "idle"
    /\ call' = [NoCall EXCEPT !.op = "deleteFile", !.fileId = fileId, !.name = name]
    /\ obj' = o
    /\ round' = 1
    /\ IssueDelete(fileId, name)
    /\ UNCHANGED <<env, providers, results, errors, waits, now>>

\* the caller of a successful uploadFile deletes the fileId it was given, on the
\* provider the result names; results keeps the upload's result
DeleteUploaded ==
    /\ pc = "done"
    /\ call.op = "uploadFile"
    /\ ret.tag = "return"
    /\ results' = <<ret.value>>
    /\ call' = [NoCall EXCEPT !.op = "deleteFile", !.fileId = ret.value.fileId,
                              !.name = ret.value.provider]
    /\ obj' = "present"
    /\ round' = 1
    /\ IssueDelete(ret.value.fileId, ret.value.provider)
    /\ UNCHANGED <<env, providers, errors, waits, now>>

\* a deleteFile that unregisters the provider whose backend refused
AnswerDeleteUnregisters(u, resp) ==
    /\ pc = "busy"
    /\ u \in inflight
    /\ u.kind = "delete"
    /\ resp \in DeleteAnswers(obj)
    /\ obj' = IF RespOk(resp) THEN "gone" ELSE obj
    /\ ret' = ProviderDeleteFile(ClassOf(u.name), resp)
    /\ pc' = "done"
    /\ inflight' = {}
    /\ net' = Answered(net, u.req, resp)
    /\ provCalls' = Settled(provCalls, "deleteFile", 0, ret'.tag)
    /\ now' = now + 1
    /\ providers' = IF ret'.tag = "return" /\ ret'.value.success THEN providers
                    ELSE SelectSeq(providers, LAMBDA e : e.name # u.name)
    /\ UNCHANGED <<env, call, results, errors, waits, round>>

\* the store answers the DELETE (or the fetch fails)
AnswerDelete(u, resp) ==
    /\ pc = "busy"
    /\ u \in inflight
    /\ u.kind = "delete"
    /\ resp \in DeleteAnswers(obj)
    /\ obj' = IF RespOk(resp) THEN "gone" ELSE obj
    /\ ret' = ProviderDeleteFile(ClassOf(u.name), resp)
    /\ pc' = "done"
    /\ inflight' = {}
    /\ net' = Answered(net, u.req, resp)
    /\ provCalls' = Settled(provCalls, "deleteFile", 0, ret'.tag)
    /\ now' = now + 1
    /\ UNCHANGED <<env, providers, call, results, errors, waits, round>>

\* the caller, given a result, deletes the same fileId on the same provider again;
\* results keeps the results of the earlier rounds
DeleteAgain ==
    /\ pc = "done"
    /\ call.op = "deleteFile"
    /\ ret.tag = "return"
    /\ round < MaxDeleteRounds
    /\ round' = round + 1
    /\ results' = Append(results, ret.value)
    /\ IssueDelete(call.fileId, call.name)
    /\ UNCHANGED <<env, providers, call, errors, waits, now, obj>>

----------------------------------------------------------------------------
(* getFileUrl of the four providers *)

\* fileId.includes('.') ? fileId.split('.')[0] : fileId
RealFileId(fileId) ==
    IF Indices(fileId, ".") # {}
    THEN SubSeq(fileId, 1, SetMin(Indices(fileId, ".")) - 1)
    ELSE fileId

\* what the bot API can answer to getFile
GetFileAnswers == {
    NetFail,
    Http(200, FALSE, NoBody),
    Http(200, TRUE, [NoBody EXCEPT !.ok = TRUE, !.result = "path", !.id = RemotePath]),
    Http(200, TRUE, [NoBody EXCEPT !.ok = TRUE, !.result = "empty"]),
    Http(200, TRUE, [NoBody EXCEPT !.isNull = TRUE]),
    Http(400, TRUE, [NoBody EXCEPT !.message = TRUE]) }

\* getFilePath: the file path, or <<>> for null
getFilePath(resp) ==
    IF ~resp.arrived \/ ~resp.parses \/ resp.body.isNull THEN <<>>
    ELSE IF resp.body.ok /\ resp.body.result = "path" /\ resp.body.id # <<>>
    THEN resp.body.id
    ELSE <<>>

\* (getFileUrl without its test of the looked-up path)
TelegramGetFileUrlUnchecked(resp) ==
    Return(<<"https://api.telegram.org/file/bot", "{botToken}", "/">> \o getFilePath(resp))

TelegramGetFileUrl(resp) ==
    LET filePath == getFilePath(resp) IN
    IF filePath = <<>>
    THEN Throw([kind |-> "ResolutionError", message |-> <<"tg:no_file_path">>])
    ELSE Return(<<"https://api.telegram.org/file/bot", "{botToken}", "/">> \o filePath)

\* a getFileUrl that leaves the bucket out of the URL
MinIOGetFileUrlNoBucket(fileId, signed) ==
    Return(<<"{minio.baseUrl}", "/">> \o fileId)

MinIOGetFileUrl(fileId, signed) ==
    IF signed
    THEN Return(<<"{minio.baseUrl}", "/", "{minio.bucket}", "/">> \o fileId
                \o <<"?AWSAccessKeyId=", "{accessKey}", "&Expires=", "{expires}",
                     "&Signature=", "{signature}">>)
    ELSE Return(<<"{minio.baseUrl}", "/", "{minio.bucket}", "/">> \o fileId)

\* what the REST object store can answer to a sign request
SignAnswers == {
    NetFail,
    Http(200, TRUE, [NoBody EXCEPT !.result = "path", !.id = RemotePath]),
    Http(200, TRUE, [NoBody EXCEPT !.isNull = TRUE]),
    Http(200, FALSE, NoBody),
    Http(400, TRUE, [NoBody EXCEPT !.message = TRUE]) }

getSignedUrl(resp) ==
    IF ~resp.arrived
    THEN Throw([kind |-> "TransportError", message |-> <<"net:failed">>])
    ELSE IF ~RespOk(resp)
    THEN Throw([kind |-> "BackendError", message |-> <<"supabase:sign_failed", "status">>])
    ELSE IF ~resp.parses
    THEN Throw([kind |-> "SyntaxError", message |-> <<"json">>])
    ELSE IF resp.body.isNull
    THEN Throw([kind |-> "TypeError", message |-> <<"null">>])
    ELSE Return(<<"{supabaseUrl}">> \o resp.body.id)

----------------------------------------------------------------------------
(* StorageManager.getFileUrl, getProviderStats, getDefaultProvider *)

\* whether the provider method needs the network before it settles
UrlNeedsNetwork(class, signed) ==
    class = "TelegramStorage" \/ (class = "SupabaseStorage" /\ signed)

\* getFileUrl(fileId, providerName, options), from its lookup to its first await
IssueGetFileUrl(fileId, name, signed) ==
    /\ call' = [NoCall EXCEPT !.op = "getFileUrl", !.fileId = fileId, !.name = name,
                              !.signed = signed]
    /\ LET found == getProvider(providers, name) IN
       IF found.tag = "throw"
       THEN /\ ret' = found
            /\ pc' = "done"
            /\ inflight' = {}
            /\ net' = <<>>
            /\ provCalls' = <<>>
       ELSE /\ provCalls' = <<[name |-> name, method |-> "getFileUrl", idx |-> 0,
                               settled |-> IF UrlNeedsNetwork(found.value.class, signed)
                                           THEN "pending" ELSE "return"]>>
            /\ IF UrlNeedsNetwork(found.value.class, signed)
               THEN /\ ret' = NoOutcome
                    /\ pc' = "busy"
                    /\ inflight' = {[kind |-> "url", idx |-> 0, name |-> name,
                                     stage |-> "net", retryCount |-> 0, req |-> 1,
                                     key |-> IF found.value.class = "TelegramStorage"
                                             THEN RealFileId(fileId) ELSE fileId]}
                    /\ net' = <<IF found.value.class = "TelegramStorage"
                                 THEN Request(name, "GET", "getFile", 0,
                                              RealFileId(fileId))
                                 ELSE Request(name, "POST", "sign", 0, fileId)>>
               ELSE /\ ret' = Held(IF found.value.class = "S3Storage"
                                   THEN \* S3Storage.getFileUrl
                                        Return(found.value.publicUrl \o <<"/">> \o fileId)
                                   ELSE IF found.value.class = "MinIOStorage"
                                   THEN MinIOGetFileUrl(fileId, signed)
                                   ELSE Return(getPublicUrl(fileId)), "url")
                    /\ pc' = "done"
                    /\ inflight' = {}
                    /\ net' = <<>>

StartGetFileUrl(fileId, name, signed) ==
    /\ pc = "idle"
    /\ IssueGetFileUrl(fileId, name, signed)
    /\ UNCHANGED <<env, providers, results, errors, waits, now, obj, round>>

\* the caller of a successful uploadFile resolves the URL of the fileId it was
\* given, on the provider the result names; results keeps the upload's result
ResolveUploaded ==
    /\ pc = "done"
    /\ call.op = "uploadFile"
    /\ ret.tag = "return"
    /\ results' = <<ret.value>>
    /\ IssueGetFileUrl(ret.value.fileId, ret.value.provider, FALSE)
    /\ UNCHANGED <<env, providers, errors, waits, now, obj, round>>

\* the backend answers the path lookup or the sign request (or the fetch fails)
AnswerGetFileUrl(u, resp) ==
    /\ pc = "busy"
    /\ u \in inflight
    /\ u.kind = "url"
    /\ resp \in (IF ClassOf(u.name) = "TelegramStorage" THEN GetFileAnswers
                                                        ELSE SignAnswers)
    /\ ret' = Held(IF ClassOf(u.name) = "TelegramStorage"
                   THEN TelegramGetFileUrl(resp)
                   ELSE getSignedUrl(resp), "url")
    /\ pc' = "done"
    /\ inflight' = {}
    /\ net' = Answered(net, u.req, resp)
    /\ provCalls' = Settled(provCalls, "getFileUrl", 0, ret'.tag)
    /\ now' = now + 1
    /\ UNCHANGED <<env, providers, call, results, errors, waits, obj, round>>

StartGetProviderStats(name) ==
    /\ pc = "idle"
    /\ call' = [NoCall EXCEPT !.op = "getProviderStats", !.name = name]
    /\ LET found == getProvider(providers, name) IN
       IF found.tag = "throw"
       THEN /\ ret' = found
            /\ pc' = "done"
            /\ UNCHANGED <<inflight, net, provCalls>>
       ELSE /\ provCalls' = <<[name |-> name, method |-> "getStats", idx |-> 0,
                               settled |-> IF found.value.class \in
                                                {"TelegramStorage", "SupabaseStorage"}
                                           THEN "pending" ELSE "return"]>>
            /\ IF found.value.class \in {"TelegramStorage", "SupabaseStorage"}
               THEN /\ ret' = NoOutcome
                    /\ pc' = "busy"
                    /\ inflight' = {[kind |-> "stats", idx |-> 0, name |-> name,
                                     stage |-> "net", retryCount |-> 0, req |-> 1,
                                     key |-> <<>>]}
                    /\ net' = <<Request(name, "GET",
                                         IF found.value.class = "TelegramStorage"
                                         THEN "getChat" ELSE "bucket", 0, <<>>)>>
               ELSE /\ ret' = Return([provider |-> name, info |-> "none"])
                    /\ pc' = "done"
                    /\ UNCHANGED <<inflight, net>>
    /\ UNCHANGED <<env, providers, results, errors, waits, now, obj, round>>

AnswerStats(u, resp) ==
    /\ pc = "busy"
    /\ u \in inflight
    /\ u.kind = "stats"
    \* getChatInfo, getBucketInfo: the parsed answer when the response is ok, else null
    /\ ret' = Return([provider |-> u.name,
                      info |-> IF resp.arrived /\ RespOk(resp) /\ resp.parses
                                  /\ ~resp.body.isNull
                               THEN "info" ELSE "null"])
    /\ pc' = "done"
    /\ inflight' = {}
    /\ net' = Answered(net, u.req, resp)
    /\ provCalls' = Settled(provCalls, "getStats", 0, "return")
    /\ now' = now + 1
    /\ UNCHANGED <<env, providers, call, results, errors, waits, obj, round>>

\* this.getProvider(this.env.DEFAULT_STORAGE_PROVIDER || 'telegram')
getDefaultProvider(m, e) ==
    getProvider(m, OrElse(e["DEFAULT_STORAGE_PROVIDER"], "telegram"))

GetDefaultProvider ==
    /\ pc = "idle"
    /\ call' = [NoCall EXCEPT !.op = "getDefaultProvider",
                              !.name = OrElse(env["DEFAULT_STORAGE_PROVIDER"], "telegram")]
    /\ ret' = getDefaultProvider(providers, env)
    /\ pc' = "done"
    /\ UNCHANGED <<env, providers, inflight, results, errors, net, waits, provCalls,
                   now, obj, round>>

----------------------------------------------------------------------------
(* healthCheck of the four providers *)

\* what a backend can answer to a health probe
HealthAnswers == FailureAnswers \cup {
    Http(200, TRUE, [NoBody EXCEPT !.ok = TRUE, !.result = "document"]),
    Http(200, TRUE, [NoBody EXCEPT !.ok = TRUE]),
    Http(200, FALSE, NoBody),
    Http(401, TRUE, [NoBody EXCEPT !.message = TRUE]) }

\* the try block of TelegramStorage.healthCheck: fetch, json(), data.ok,
\* data.result.username
TelegramHealthTry(resp) ==
    IF ~resp.arrived THEN Throw(<<"net:failed">>)
    ELSE IF ~resp.parses THEN Throw(<<"SyntaxError">>)
    ELSE IF resp.body.isNull THEN Throw(<<"TypeError">>)
    ELSE IF resp.body.ok
    THEN IF resp.body.result = "none" THEN Throw(<<"TypeError">>)
         ELSE Return([status |-> "healthy", message |-> <<"tg:connected">>])
    ELSE Return([status |-> "unhealthy", message |-> <<"tg:api_error">>])

\* the try block of S3Storage.healthCheck and of MinIOStorage.healthCheck
ObjectStoreHealthTry(resp, name) ==
    IF ~resp.arrived THEN Throw(<<"net:failed">>)
    ELSE IF RespOk(resp)
    THEN Return([status |-> "healthy", message |-> <<name, "connected">>])
    ELSE Return([status |-> "unhealthy", message |-> <<name, "status">>])

\* listFiles
listFiles(resp) ==
    IF ~resp.arrived THEN Throw(<<"net:failed">>)
    ELSE IF ~RespOk(resp)
    THEN IF resp.parses /\ resp.body.isNull THEN Throw(<<"TypeError">>)
         ELSE Throw(<<"supabase:list_failed", "status">>)
    ELSE IF ~resp.parses THEN Throw(<<"SyntaxError">>)
    ELSE Return("files")

\* the try block of SupabaseStorage.healthCheck
SupabaseHealthTry(resp) ==
    LET files == listFiles(resp) IN
    IF files.tag = "throw" THEN files
    ELSE Return([status |-> "healthy", message |-> <<"supabase", "connected">>])

\* a healthCheck without its catch
CatchHealthRethrows(tried, name) == tried

\* catch (error) { return { status: 'error', message: `...: ${error.message}` } }
CatchHealth(tried, name) ==
    IF tried.tag = "throw"
    THEN Return([status |-> "error", message |-> <<name, "check_failed">> \o tried.error])
    ELSE tried

ProviderHealthCheck(class, name, resp) ==
    CASE class = "TelegramStorage" -> CatchHealth(TelegramHealthTry(resp), name)
      [] class \in {"S3Storage", "MinIOStorage"} ->
            CatchHealth(ObjectStoreHealthTry(resp, name), name)
      [] class = "SupabaseStorage" -> CatchHealth(SupabaseHealthTry(resp), name)

----------------------------------------------------------------------------
(* StorageManager.healthCheck *)

\* the body of the loop for one provider:
\* try { results[name] = await provider.healthCheck() }
\* catch (error) { results[name] = { status: 'error', message: error.message } }
HealthRecordDropFailed(rs, name, checked) ==
    IF checked.tag = "throw" \/ checked.value.status = "error"
    THEN rs
    ELSE MapSet(rs, name, checked.value)

HealthRecord(rs, name, checked) ==
    IF checked.tag = "throw"
    THEN MapSet(rs, name, [status |-> "error", message |-> checked.error])
    ELSE MapSet(rs, name, checked.value)

HealthRequest(name, inst, idx, t) ==
    LET req == Request(name,
                       IF inst.class = "SupabaseStorage" THEN "POST" ELSE "GET",
                       IF inst.class = "TelegramStorage" THEN "getMe" ELSE "list",
                       idx, <<>>) IN
    IF inst.class = "S3Storage"
    THEN LET get == S3HealthRequest(inst, t) IN
         [req EXCEPT !.url = get.url, !.host = get.host, !.path = get.path,
                     !.query = get.query,
                     !.headers = get.headers,
                     !.authorization = get.authorization]
    ELSE IF inst.class = "MinIOStorage"
    THEN \* `${this.baseUrl}/${this.bucket}?max-keys=1`, signed for the key ''
         LET headers == MinIOBareHeaders(inst, t) IN
         [req EXCEPT !.host = MinIOAddress(inst, <<>>).host,
                     !.path = <<"/", inst.bucket>>,
                     !.query = <<"m","a","x","-","k","e","y","s","=","1">>,
                     !.headers = headers,
                     !.authorization =
                        generateAuthorization(inst, <<"GET">>, <<>>, headers)]
    ELSE req

\* the loop reaches the provider at position k of the map, or ends
\* (net logs the probes of the whole call)
HealthLoop(k, rs, log, calls) ==
    IF k > Len(providers)
    THEN /\ ret' = Held(Return(rs), "statuses")
         /\ pc' = "done"
         /\ inflight' = {}
         /\ net' = log
         /\ provCalls' = calls
    ELSE /\ ret' = NoOutcome
         /\ pc' = "busy"
         /\ inflight' = {[kind |-> "health", idx |-> k, name |-> providers[k].name,
                          stage |-> "net", retryCount |-> 0, req |-> Len(log) + 1,
                          key |-> <<>>]}
         /\ net' = Append(log, HealthRequest(providers[k].name, providers[k].val, k, now))
         /\ provCalls' = Append(calls, [name |-> providers[k].name,
                                        method |-> "healthCheck", idx |-> k,
                                        settled |-> "pending"])

StartHealthCheck ==
    /\ pc = "idle"
    /\ call' = [NoCall EXCEPT !.op = "healthCheck"]
    /\ HealthLoop(1, <<>>, <<>>, <<>>)
    /\ UNCHANGED <<env, providers, results, errors, waits, now, obj, round>>

\* the backend answers the probe of provider u.name (or the fetch fails)
AnswerHealth(u, resp) ==
    /\ pc = "busy"
    /\ u \in inflight
    /\ u.kind = "health"
    /\ results' = HealthRecord(results, u.name,
                               ProviderHealthCheck(ClassOf(u.name), u.name, resp))
    /\ HealthLoop(u.idx + 1, results', Answered(net, u.req, resp),
                  Settled(provCalls, "healthCheck", u.idx,
                          ProviderHealthCheck(ClassOf(u.name), u.name, resp).tag))
    /\ now' = now + 1
    /\ UNCHANGED <<env, providers, call, errors, waits, obj, round>>

----------------------------------------------------------------------------
(* Specifications *)


\* the configuration in which exactly the variants in S are fully configured
EnvOf(S, default) ==
    [k \in ConfigKeys |->
        IF k = "DEFAULT_STORAGE_PROVIDER" THEN default
        ELSE IF \E name \in S : k \in KeysOf(name) THEN "v"
        ELSE Absent]

\* the provider names a caller passes
ProviderArgs == {Absent, "telegram", "s3", "minio", "supabase", "nosuch"}

\* the prefixes a caller passes
PrefixArgs == {<<>>, <<"u","p">>}

InitConfig ==
    \* a config field is absent, the empty string, or a non-empty string
    /\ env \in {e \in [ConfigKeys -> {Absent, "", "v"}] :
                     e["DEFAULT_STORAGE_PROVIDER"] = Absent}
    /\ providers = <<>>
    /\ pc = "new"
    /\ Quiet
    /\ limiter = <<>>
    /\ site = <<>>

SpecConfig == InitConfig /\ [][Construct /\ UNCHANGED <<limiter, site>>]_vars

Init ==
    /\ env \in {EnvOf({}, Absent), EnvOf({"s3"}, Absent),
                 EnvOf({"telegram", "minio"}, "minio"),
                 EnvOf(Variants, Absent), EnvOf(Variants, "nosuch")}
    /\ providers = <<>>
    /\ pc = "new"
    /\ Quiet
    /\ limiter = <<>>
    /\ site = <<>>

Next ==
    \/ Construct /\ UNCHANGED <<limiter, site>>
    \/ \E i \in 1..MaxFiles, p \in ProviderArgs, f \in {<<>>, <<"x",".","j","p","g">>},
          x \in PrefixArgs, rnd \in RandomSamples :
            StartUploadFile(i, p, f, x, Absent, <<>>, rnd) /\ UNCHANGED <<limiter, site>>
    \/ \E n \in 0..MaxFiles, p \in ProviderArgs, rnd \in RandomSamples :
            StartUploadFiles(n, p, rnd) /\ UNCHANGED <<limiter, site>>
    \/ \E u \in inflight, resp \in TelegramSendAnswers :
            AnswerTelegramSend(u, resp) /\ UNCHANGED <<limiter, site>>
    \/ \E u \in inflight : BackoffElapsed(u) /\ UNCHANGED <<limiter, site>>
    \/ \E u \in inflight, resp \in PutAnswers, rnd \in RandomSamples :
            AnswerPut(u, resp, rnd) /\ UNCHANGED <<limiter, site>>
    \/ \E u \in inflight, resp \in SupabaseUploadAnswers, rnd \in RandomSamples :
            AnswerSupabaseUpload(u, resp, rnd) /\ UNCHANGED <<limiter, site>>
    \/ \E f \in FileIdArgs, p \in ProviderArgs, o \in {"present", "gone"} :
            StartDeleteFile(f, p, o) /\ UNCHANGED <<limiter, site>>
    \/ \E u \in inflight, resp \in DeleteAnswers(obj) : AnswerDelete(u, resp) /\ UNCHANGED <<limiter, site>>
    \/ DeleteAgain /\ UNCHANGED <<limiter, site>>
    \/ \E f \in FileIdArgs, p \in ProviderArgs, signed \in BOOLEAN :
            StartGetFileUrl(f, p, signed) /\ UNCHANGED <<limiter, site>>
    \/ \E u \in inflight, resp \in GetFileAnswers \cup SignAnswers :
            AnswerGetFileUrl(u, resp) /\ UNCHANGED <<limiter, site>>
    \/ ResolveUploaded /\ UNCHANGED <<limiter, site>>
    \/ \E p \in ProviderArgs : StartGetProviderStats(p) /\ UNCHANGED <<limiter, site>>
    \/ \E u \in inflight, resp \in FailureAnswers \cup {Http(200, TRUE, [NoBody EXCEPT !.ok = TRUE])} :
            AnswerStats(u, resp) /\ UNCHANGED <<limiter, site>>
    \/ GetDefaultProvider /\ UNCHANGED <<limiter, site>>
    \/ StartHealthCheck /\ UNCHANGED <<limiter, site>>
    \/ \E u \in inflight, resp \in HealthAnswers : AnswerHealth(u, resp) /\ UNCHANGED <<limiter, site>>
    \/ Finish /\ UNCHANGED <<limiter, site>>

Spec == Init /\ [][Next]_vars

\* A fetch settles (the back-end answers or the connection fails) and a timer
\* set with setTimeout fires: a send in progress is answered, a backoff sleep ends.
SpecLive ==
    /\ Spec
    /\ WF_vars(\E u \in inflight, resp \in TelegramSendAnswers :
                    AnswerTelegramSend(u, resp) /\ UNCHANGED <<limiter, site>>)
    /\ WF_vars(\E u \in inflight : BackoffElapsed(u) /\ UNCHANGED <<limiter, site>>)

----------------------------------------------------------------------------
(* The object stores: S3 under its optional settings, MinIO and Supabase beside it *)

\* the environments with S3, MinIO and Supabase configured: AWS_S3_ENDPOINT
\* left out, an AWS endpoint or an S3-compatible one; AWS_S3_VIRTUAL_HOST left
\* out or a text
ObjectStoreEnvs ==
    LET Setting(k, o) == IF o.defined THEN k :> o.value ELSE [x \in {} |-> x] IN
    {Setting("AWS_S3_ENDPOINT", ep) @@ Setting("AWS_S3_VIRTUAL_HOST", fl)
         @@ EnvOf({"s3", "minio", "supabase"}, Absent) :
     ep \in {[defined |-> FALSE, value |-> <<>>],
         [defined |-> TRUE, value |-> <<"h","t","t","p","s",":","/","/","s","3","-","e","u","-","w","e","s","t","-","1",".","a","m","a","z","o","n","a","w","s",".","c","o","m">>],
         [defined |-> TRUE, value |-> <<"h","t","t","p",":","/","/","m","i","n","i","o",".","l","o","c","a","l",":","9","0","0","0">>],
         [defined |-> TRUE, value |-> <<"h","t","t","p","s",":","/","/","S","3",".","a","m","a","z","o","n","a","w","s",".","c","o","m">>]},
     fl \in {[defined |-> FALSE, value |-> <<>>],
         [defined |-> TRUE, value |-> <<"f","a","l","s","e">>],
         [defined |-> TRUE, value |-> <<"F","a","l","s","e">>],
         [defined |-> TRUE, value |-> <<"t","r","u","e">>],
         [defined |-> TRUE, value |-> <<>>]}}

\* object names and file ids, one of them ending in two slashes
KeyArgs == {<<"x",".","j","p","g">>, <<"d","/","/">>}

InitObjectStore ==
    /\ env \in ObjectStoreEnvs
    /\ providers = <<>>
    /\ pc = "new"
    /\ Quiet
    /\ limiter = <<>>
    /\ site = <<>>

NextObjectStore ==
    \/ Construct /\ UNCHANGED <<limiter, site>>
    \/ \E i \in 1..Len(SamplePayloads), p \in {"s3", "minio", "supabase"},
          f \in {<<>>} \cup KeyArgs, x \in PrefixArgs,
          \* options.public: not given, true, false, and the string 'false'
          pub \in {Absent, "<true>", "<false>", "false"},
          \* options.metadata: not given, what the upload route gives, and keys
          \* that differ in the case of their first letters
          meta \in {<<>>,
                    <<Header(<<"u","s","e","r","I","d">>, <<"anonymous">>),
                      Header(<<"u","p","l","o","a","d","e","d","B","y">>, <<"anonymous">>)>>,
                    <<Header(<<"Z","e","t","a">>, <<"1">>),
                      Header(<<"a","l","p","h","a">>, <<"2">>)>>},
          rnd \in RandomSamples :
            (pub = Absent \/ meta = <<>>) /\ StartUploadFile(i, p, f, x, pub, meta, rnd)
                /\ UNCHANGED <<limiter, site>>
    \/ \E u \in inflight, resp \in PutAnswers, rnd \in RandomSamples :
            AnswerPut(u, resp, rnd) /\ UNCHANGED <<limiter, site>>
    \/ \E u \in inflight, resp \in SupabaseUploadAnswers, rnd \in RandomSamples :
            AnswerSupabaseUpload(u, resp, rnd) /\ UNCHANGED <<limiter, site>>
    \/ ResolveUploaded /\ UNCHANGED <<limiter, site>>
    \/ DeleteUploaded /\ UNCHANGED <<limiter, site>>
    \/ \E f \in KeyArgs, p \in {"s3", "minio", "supabase"}, o \in {"present", "gone"} :
            StartDeleteFile(f, p, o) /\ UNCHANGED <<limiter, site>>
    \/ \E u \in inflight, resp \in DeleteAnswers(obj) : AnswerDelete(u, resp) /\ UNCHANGED <<limiter, site>>
    \/ StartHealthCheck /\ UNCHANGED <<limiter, site>>
    \/ \E u \in inflight, resp \in HealthAnswers : AnswerHealth(u, resp) /\ UNCHANGED <<limiter, site>>
    \/ Finish /\ UNCHANGED <<limiter, site>>

SpecObjectStore == InitObjectStore /\ [][NextObjectStore]_vars

----------------------------------------------------------------------------
(* The rate limiter: one client address, the routes /api/... and /upload *)

\* the variables of the storage layer, which the routes' middleware leaves alone
registry == <<env, providers, pc, call, inflight, results, errors, ret, net, waits,
              provCalls, now, obj, round>>

\* requests that arrive after the ones already served, and requests that the
\* middleware handles at the same time
MaxArrivals == 3
MaxInFlight == 2

\* the options of the limiter registered for a route; neither registration
\* gives a keyPrefix, so both keep their timestamps under rate_limit:<ip>
rateLimiter(route) ==
    [max |-> IF route = "upload" THEN 20 ELSE 100, windowMs |-> 60000,
     keyPrefix |-> "rate_limit"]

\* a request reaches the middleware, which reads the clock and asks KV for the
\* timestamps stored under its key
Arrive(route) ==
    /\ limiter.arrivals < MaxArrivals
    /\ Cardinality(limiter.flights) < MaxInFlight
    /\ limiter' = [limiter EXCEPT
          !.arrivals = @ + 1,
          !.made[route][limiter.time] = @ + 1,
          !.flights = @ \cup {[id |-> limiter.arrivals + 1, route |-> route,
                               at |-> limiter.time, phase |-> "get",
                               requests |-> <<>>]}]
    /\ UNCHANGED <<registry, site>>

\* KV answers the get (or throws): the middleware filters the timestamps of the
\* window, answers 429 at the limit, otherwise appends its own and asks KV to
\* store the list; the catch lets the request through
CountRead(r, ok) ==
    /\ r \in limiter.flights
    /\ r.phase = "get"
    /\ LET windowStart == r.at - rateLimiter(r.route).windowMs
           requests == SelectSeq(limiter.store[rateLimiter(r.route).keyPrefix],
                                 LAMBDA timestamp : timestamp > windowStart)
       IN limiter' =
            IF ~ok
            THEN [limiter EXCEPT !.flights = @ \ {r},
                                 !.through[r.route][r.at] = @ + 1]
            ELSE IF Len(requests) >= rateLimiter(r.route).max
            THEN [limiter EXCEPT !.flights = @ \ {r},
                                 !.refused[r.route][r.at] = @ + 1]
            ELSE [limiter EXCEPT !.flights = (@ \ {r}) \cup
                     {[r EXCEPT !.phase = "put", !.requests = Append(requests, r.at)]}]
    /\ UNCHANGED <<registry, site>>

\* KV has stored the list (or the put threw): next() runs either way
CountStored(r, ok) ==
    /\ r \in limiter.flights
    /\ r.phase = "put"
    /\ limiter' = [limiter EXCEPT
          !.flights = @ \ {r},
          !.store[rateLimiter(r.route).keyPrefix] = IF ok THEN r.requests ELSE @,
          !.through[r.route][r.at] = @ + 1]
    /\ UNCHANGED <<registry, site>>

\* more than a window passes
Tick ==
    /\ limiter.time = 0
    /\ limiter' = [limiter EXCEPT !.time = 61000]
    /\ UNCHANGED <<registry, site>>

\* the address has made some requests one after the other, each served before
\* the next arrived and KV answering all of them: none, 19 or 20 to /upload,
\* or 20, 99 or 100 to /api/...
InitLimiter ==
    /\ env = EnvOf({}, Absent)
    /\ providers = <<>>
    /\ pc = "off"
    /\ Quiet
    /\ site = <<>>
    /\ \E served \in {[upload |-> 0, api |-> 0], [upload |-> 19, api |-> 0],
                      [upload |-> 20, api |-> 0], [upload |-> 0, api |-> 20],
                      [upload |-> 0, api |-> 99], [upload |-> 0, api |-> 100]} :
          LET counts == [route \in {"upload", "api"} |->
                            [t \in {0, 61000} |-> IF t = 0 THEN served[route] ELSE 0]]
          IN limiter = [store |-> [k \in {"rate_limit"} |->
                                      [i \in 1..(served.upload + served.api) |-> 0]],
                        time |-> 0, arrivals |-> 0, flights |-> {},
                        made |-> counts, through |-> counts,
                        refused |-> [route \in {"upload", "api"} |->
                                        [t \in {0, 61000} |-> 0]]]

NextLimiter ==
    \/ \E route \in {"upload", "api"} : Arrive(route)
    \/ \E r \in limiter.flights, ok \in BOOLEAN : CountRead(r, ok)
    \/ \E r \in limiter.flights, ok \in BOOLEAN : CountStored(r, ok)
    \/ Tick

SpecLimiter == InitLimiter /\ [][NextLimiter]_vars

----------------------------------------------------------------------------
(* The upload routes: POST /upload (upload) and POST /api/upload (apiUpload) *)

\* MAX_FILE_SIZE in bytes: digits, optional spaces, an optional unit of B, KB,
\* MB or GB in any case; apiUpload's pattern also allows spaces around the
\* whole, upload's does not; anything else means 50 MB (fractions are not
\* among the settings of the model)
parseMaxFileSize(raw, padded) ==
    LET Trim(s) == LET ink == {i \in 1..Len(s) : s[i] # " "}
                   IN IF ink = {} THEN <<>> ELSE SubSeq(s, SetMin(ink), SetMax(ink))
        text == IF raw = Absent \/ raw = <<>> THEN <<"5","0","M","B">>
                ELSE IF padded THEN Trim(raw) ELSE raw
        IsDigit(c) == \E d \in 1..10 : DigitCs[d] = c
        n == IF \A i \in 1..Len(text) : IsDigit(text[i]) THEN Len(text)
             ELSE SetMin({i \in 1..Len(text) : ~IsDigit(text[i])}) - 1
        unit == toLowerCase(Trim(SubSeq(text, n + 1, Len(text))))
        DigitOf(c) == (CHOOSE d \in 1..10 : DigitCs[d] = c) - 1
        value[i \in 0..n] == IF i = 0 THEN 0 ELSE 10 * value[i - 1] + DigitOf(text[i])
        spaced == unit # <<>> /\ text[Len(text)] = " "
    IN IF n = 0 \/ spaced \/ unit \notin {<<>>, <<"b">>, <<"k","b">>, <<"m","b">>, <<"g","b">>}
       THEN 50 * 1024 * 1024
       ELSE value[n] * (CASE unit = <<"b">> -> 1
                          [] unit = <<"k","b">> -> 1024
                          [] unit = <<"g","b">> -> 1024 * 1024 * 1024
                          [] OTHER -> 1024 * 1024)

\* ALLOWED_FILE_TYPES split at commas, each piece trimmed and lower-cased, the
\* empty pieces dropped
parseAllowedTypes(raw) ==
    LET text == IF raw = Absent \/ raw = <<>>
                THEN <<"i","m","a","g","e","/","j","p","e","g",",",
                       "i","m","a","g","e","/","p","n","g",",",
                       "i","m","a","g","e","/","g","i","f",",",
                       "i","m","a","g","e","/","w","e","b","p">>
                ELSE raw
        commas == Indices(text, ",")
        cut(j) == IF j = 0 THEN 0
                  ELSE IF j > Cardinality(commas) THEN Len(text) + 1
                  ELSE CHOOSE p \in commas : Cardinality({q \in commas : q <= p}) = j
        piece(j) == SubSeq(text, cut(j - 1) + 1, cut(j) - 1)
        Trim(s) == LET ink == {i \in 1..Len(s) : s[i] # " "}
                   IN IF ink = {} THEN <<>> ELSE SubSeq(s, SetMin(ink), SetMax(ink))
    IN SelectSeq([j \in 1..(Cardinality(commas) + 1) |-> toLowerCase(Trim(piece(j)))],
                 LAMBDA s : s # <<>>)

\* a type test that admits every file
isTypeAllowedAlways(file, allowedList) == TRUE

isTypeAllowed(file, allowedList) ==
    \/ Len(allowedList) = 0
    \/ LET mime == toLowerCase(file.type)
           ext == toLowerCase(SplitPop(file.name))
       IN \E i \in 1..Len(allowedList) :
             LET t == allowedList[i]
             IN \/ mime = t
                \/ startsWith(mime, t \o <<"/">>)
                \/ ext = t
                \/ t = <<"*","/","*">>

\* the loop over the request's files from the k-th on, up to its next await
\* (the storage upload of the first file that passes both checks) or, when no
\* file is left, up to the response
ProcessFiles(r, k) ==
    LET maxSize == parseMaxFileSize(site.settings.MAX_FILE_SIZE, r.route = "apiUpload")
        allowed == parseAllowedTypes(site.settings.ALLOWED_FILE_TYPES)
        file(j) == SamplePayloads[r.files[j]]
        passes == {j \in k..Len(r.files) :
                      ~(file(j).size > maxSize) /\ isTypeAllowed(file(j), allowed)}
        stop == IF passes = {} THEN Len(r.files) + 1 ELSE SetMin(passes)
        rejected == r.rejected \o [j \in 1..(stop - k) |-> k + j - 1]
    IN IF passes # {}
       THEN [r EXCEPT !.k = stop, !.rejected = rejected, !.phase = "storage",
                      !.sent = Append(@, stop)]
       ELSE [r EXCEPT !.k = stop, !.rejected = rejected, !.phase = "answered",
                      !.status =
                         IF r.route = "upload"
                         THEN \* validationErrors.length && uploadResults.length === 0
                              IF Len(rejected) > 0 /\ Len(r.results) = 0
                              THEN 400 ELSE 200
                         ELSE IF Len(r.files) = 1
                         THEN IF Len(r.results) = 1 THEN 200 ELSE 400
                         ELSE IF Len(rejected) + Len(r.failed) > 0 THEN 207 ELSE 200]

\* the request of a client arrives: its form data, the files under 'file' and
\* whether a user is authenticated; without a file upload throws (500) and
\* apiUpload fails (400)
Receive(id, route, user, files) ==
    /\ \A q \in site.reqs : q.id # id
    /\ LET r == [id |-> id, route |-> route, user |-> user,
                 files |-> files, k |-> 1, phase |-> "new", status |-> 0,
                 rejected |-> <<>>, failed |-> <<>>, sent |-> <<>>,
                 stored |-> <<>>, results |-> <<>>,
                 index |-> [ids |-> <<>>, total |-> 0]]
       IN site' = [site EXCEPT
             !.reqs = @ \cup {IF Len(files) = 0
                              THEN [r EXCEPT !.phase = "answered",
                                             !.status = IF route = "upload" THEN 500
                                                        ELSE 400]
                              ELSE ProcessFiles(r, 1)}]
    /\ UNCHANGED <<registry, limiter>>

\* storageManager.uploadFile returns its result or throws
StorageSettles(r, ok) ==
    /\ r \in site.reqs
    /\ r.phase = "storage"
    /\ LET after ==
             IF ~ok THEN ProcessFiles([r EXCEPT !.failed = Append(@, r.k)], r.k + 1)
             ELSE IF r.route = "apiUpload"
             THEN ProcessFiles([r EXCEPT !.stored = Append(@, r.k),
                                         !.results = Append(@, <<r.id, r.k>>)],
                               r.k + 1)
             ELSE \* await env.img_url.put(`file:${fileKey}`, "", { metadata })
                  [r EXCEPT !.stored = Append(@, r.k), !.phase = "put_file"]
       IN site' = [site EXCEPT !.reqs = (@ \ {r}) \cup {after}]
    /\ UNCHANGED <<registry, limiter>>

\* a KV operation of upload settles: the put of file:<key>, then for a user the
\* get of the index, the put of the index with the key appended, the put of
\* user:<id>:file:<key>; the src is pushed after the last one, and an
\* operation that throws ends the file's turn in the catch
KvSettles(r, ok) ==
    /\ r \in site.reqs
    /\ r.phase \in {"put_file", "get_index", "put_index", "put_user_file"}
    /\ LET fileKey == <<r.id, r.k>>
           pushed == ProcessFiles([r EXCEPT !.results = Append(@, fileKey)], r.k + 1)
           after ==
             IF ~ok THEN ProcessFiles([r EXCEPT !.failed = Append(@, r.k)], r.k + 1)
             ELSE CASE r.phase = "put_file" ->
                         IF r.user THEN [r EXCEPT !.phase = "get_index"] ELSE pushed
                    [] r.phase = "get_index" ->
                         [r EXCEPT !.phase = "put_index",
                                   !.index = [ids |-> Append(site.index.ids, fileKey),
                                              total |-> site.index.total + 1]]
                    [] r.phase = "put_index" -> [r EXCEPT !.phase = "put_user_file"]
                    [] r.phase = "put_user_file" -> pushed
       IN site' = [site EXCEPT
             !.reqs = (@ \ {r}) \cup {after},
             !.index = IF ok /\ r.phase = "put_index" THEN r.index ELSE @]
    /\ UNCHANGED <<registry, limiter>>

\* the settings of the deployment: both unset; a 15-byte limit with a list of
\* a type family, an extension in capitals and a padded extension; a limit
\* written with a leading space and a list of commas and spaces only; a limit
\* that is no number and the wildcard
InitSite ==
    /\ env = EnvOf({}, Absent)
    /\ providers = <<>>
    /\ pc = "off"
    /\ Quiet
    /\ limiter = <<>>
    /\ \E settings \in {
          [MAX_FILE_SIZE |-> Absent, ALLOWED_FILE_TYPES |-> Absent],
          [MAX_FILE_SIZE |-> <<"1","5","B">>,
           ALLOWED_FILE_TYPES |-> <<"i","m","a","g","e",",","M","P","4",","," ","t","x","t">>],
          [MAX_FILE_SIZE |-> <<" ","1","5","b">>, ALLOWED_FILE_TYPES |-> <<" ",","," ">>],
          [MAX_FILE_SIZE |-> <<"b","i","g">>, ALLOWED_FILE_TYPES |-> <<"*","/","*">>]} :
          site = [settings |-> settings, reqs |-> {},
                  index |-> [ids |-> <<>>, total |-> 0]]

NextSite ==
    \* two clients, one request each; apiUpload does not look at the user
    \/ \E id \in {1, 2}, route \in {"upload", "apiUpload"}, user \in BOOLEAN,
          files \in {<<>>, <<1>>, <<4>>, <<1, 2>>, <<4, 1>>, <<2, 3>>} :
            (route = "apiUpload" => ~user) /\ Receive(id, route, user, files)
    \/ \E r \in site.reqs, ok \in BOOLEAN : StorageSettles(r, ok)
    \/ \E r \in site.reqs, ok \in BOOLEAN : KvSettles(r, ok)

SpecSite == InitSite /\ [][NextSite]_vars

----------------------------------------------------------------------------
(* TelegramStorage: the choice of the bot API method *)

\* a file whose declared type is a family (in some case, or cut short, or
\* none), a separator or none, and a subtype or none
InitEndpoint ==
    /\ env = EnvOf({"telegram"}, Absent)
    /\ providers = <<>>
    /\ pc = "idle"
    /\ \E family \in {<<>>, <<"i","m","a","g","e">>, <<"I","M","A","G","E">>,
                       <<"a","u","d","i","o">>, <<"A","u","d","i","o">>,
                       <<"v","i","d","e","o">>, <<"v","i","D","e","o">>,
                       <<"t","e","x","t">>, <<"i","m","a","g">>,
                       <<"x","i","m","a","g","e">>},
          sep \in {<<>>, <<"/">>, <<"-">>},
          subtype \in {<<>>, <<"x">>, <<"P","N","G">>, <<"a","u","d","i","o","/">>} :
          call = [NoCall EXCEPT !.op = "getApiEndpoint",
                                !.files = <<[name |-> <<"f">>,
                                             type |-> family \o sep \o subtype,
                                             size |-> 1]>>]
    /\ inflight = {}
    /\ results = <<>>
    /\ errors = <<>>
    /\ ret = NoOutcome
    /\ net = <<>>
    /\ waits = <<>>
    /\ provCalls = <<>>
    /\ now = 0
    /\ obj = "none"
    /\ round = 0
    /\ limiter = <<>>
    /\ site = <<>>

\* uploadFile asks for the method and the form field of its file
SelectEndpoint ==
    /\ pc = "idle"
    /\ call.op = "getApiEndpoint"
    /\ ret' = Return(getApiEndpoint(call.files[1]))
    /\ pc' = "done"
    /\ UNCHANGED <<env, providers, call, inflight, results, errors, net, waits,
                   provCalls, now, obj, round, limiter, site>>

SpecEndpoint == InitEndpoint /\ [][SelectEndpoint]_vars

----------------------------------------------------------------------------
(* Properties *)

\* the names under which the registry holds an instance
RegisteredNames == {providers[i].name : i \in 1..Len(providers)}

Registered(name) == name \in RegisteredNames

\* the variants all of whose required fields are populated in e
FullyConfigured(e) == {v \in Variants : \A k \in KeysOf(v) : e[k] \notin {Absent, ""}}

\* C1: Constructing the registry never ends in an error, whatever fields the
\* configuration populates, and the registry then holds exactly the variants
\* whose required fields are all populated, each once; with only the s3
\* fields populated the available providers are ["s3"], with none populated [].
C1_RegistersExactlyConfigured ==
    pc # "new" =>
        /\ pc = "idle"
        /\ RegisteredNames = FullyConfigured(env)
        /\ Len(providers) = Cardinality(FullyConfigured(env))
        /\ (FullyConfigured(env) = {"s3"}
                => getAvailableProviders(providers) = <<"s3">>)
        /\ (FullyConfigured(env) = {}
                => getAvailableProviders(providers) = <<>>)

\* a partially configured Telegram is left out silently: only s3 is registered
C1_Witness ==
    /\ pc = "idle"
    /\ getAvailableProviders(providers) = <<"s3">>
    /\ env["TG_Bot_Token"] = "v"
    /\ env["TG_Chat_ID"] = ""
    /\ env["MINIO_ENDPOINT"] = Absent

\* the operations that take a provider name, and the name each call resolves
NamedOps == {"uploadFile", "deleteFile", "getFileUrl", "getProviderStats",
             "getDefaultProvider"}

\* options.provider, else DEFAULT_STORAGE_PROVIDER, else "telegram"
ResolvedName ==
    IF call.provider \notin {Absent, ""} THEN call.provider
    ELSE IF env["DEFAULT_STORAGE_PROVIDER"] \notin {Absent, ""}
    THEN env["DEFAULT_STORAGE_PROVIDER"]
    ELSE "telegram"

CallName == IF call.op \in {"uploadFile", "uploadFiles"} THEN ResolvedName ELSE call.name

NotFound(name) == Throw([kind |-> "ProviderNotFound", name |-> name])

\* C2: A lookup fails with the provider-not-found error exactly when the name
\* is not in the registry and otherwise yields the instance registered under
\* that name; upload, delete, URL resolution, stats and default-provider
\* resolution on an absent name fail with that error before any provider
\* method is called or any request is sent.
C2_AbsentNameIsNotFound ==
    (pc \in {"busy", "done"} /\ call.op \in NamedOps) =>
        IF Registered(CallName)
        THEN /\ ret # NotFound(CallName)
             /\ (call.op = "getDefaultProvider" =>
                    /\ ret.tag = "return"
                    /\ \E i \in 1..Len(providers) :
                          providers[i].name = CallName /\ providers[i].val = ret.value)
             /\ (call.op # "getDefaultProvider" =>
                    /\ Len(provCalls) = 1
                    /\ provCalls[1].name = CallName)
        ELSE /\ pc = "done"
             /\ ret = NotFound(CallName)
             /\ provCalls = <<>>
             /\ net = <<>>
             /\ inflight = {}

\* a mistyped name with all four variants registered
C2_Witness ==
    /\ pc = "done"
    /\ call.op = "deleteFile"
    /\ call.name = "nosuch"
    /\ Len(providers) = 4
    /\ ret = NotFound("nosuch")
    /\ provCalls = <<>>

\* C3: The result of a successful registry upload carries the resolved
\* provider name (options.provider, else DEFAULT_STORAGE_PROVIDER, else
\* "telegram") as provider and the registry's clock at that call as timestamp;
\* with provider unset and the default "minio" the result has provider "minio".
C3_StampedWithResolvedName ==
    /\ (pc = "done" /\ call.op = "uploadFile" /\ ret.tag = "return") =>
          /\ ret.value.provider = ResolvedName
          /\ ret.value.timestamp = now
          /\ (call.provider = Absent /\ env["DEFAULT_STORAGE_PROVIDER"] = "minio"
                => ret.value.provider = "minio")
    /\ (call.op = "uploadFiles" /\ pc \in {"busy", "done"}) =>
          \A i \in 1..Len(results) :
             /\ results[i].provider = ResolvedName
             /\ results[i].timestamp \in 1..now

C3_Witness ==
    /\ pc = "done"
    /\ call.op = "uploadFile"
    /\ call.provider = Absent
    /\ env["DEFAULT_STORAGE_PROVIDER"] = "minio"
    /\ ret.tag = "return"
    /\ ret.value.provider = "minio"
    /\ ret.value.timestamp = now

\* the fields every successful upload result defines
ResultFields == {"fileId", "originalName", "size", "url", "provider", "timestamp"}

FullyPopulated(r) ==
    /\ ResultFields \subseteq DOMAIN r
    /\ r.fileId # <<>>
    /\ r.url # <<>>
    /\ r.provider \in Variants

\* C4: A registry upload is all-or-nothing for every variant and every
\* back-end outcome: it returns a result with fileId, originalName, size,
\* url, provider and timestamp all defined, or it fails; it fails whenever
\* the provider's upload fails, and never returns a partial result.
C4_UploadAllOrNothing ==
    /\ (pc = "done" /\ call.op = "uploadFile") =>
          /\ ret.tag = "return" => FullyPopulated(ret.value)
          /\ ret.tag = "return" => ret.value.originalName = call.files[1].name
          /\ (ret.tag = "return") =
                (provCalls # <<>> /\ provCalls[1].settled = "return")
          /\ (provCalls # <<>> /\ provCalls[1].settled = "throw") =>
                (ret.tag = "throw" /\ ret.error.kind = "UploadFailed")
          /\ (net # <<>> /\ (net[Len(net)].state = "failed"
                             \/ net[Len(net)].status \notin 200..299)) =>
                ret.tag = "throw"
    /\ (call.op = "uploadFiles" /\ pc \in {"busy", "done"}) =>
          /\ \A i \in 1..Len(results) : FullyPopulated(results[i])
          /\ Len(results) =
                Cardinality({i \in 1..Len(provCalls) : provCalls[i].settled = "return"})

\* the bot API answered 200 without a usable file id: the upload fails
C4_Witness ==
    /\ pc = "done"
    /\ call.op = "uploadFile"
    /\ net # <<>>
    /\ net[Len(net)].status = 200
    /\ ret.tag = "throw"
    /\ ret.error.kind = "UploadFailed"
    /\ ret.error.cause = <<"tg:no_file_id">>

\* the names of the files of fs at the positions in S, in increasing order
NamesAt(fs, S) == [j \in 1..Cardinality(S) |-> fs[Ascending(S)[j]].name]

\* C5: uploadFiles always returns normally; every payload is attempted
\* exactly once and ends in exactly one of the success and errors lists,
\* each list in input order; total is the number of payloads and equals
\* successCount + errorCount with the counts the lengths of the lists.  A
\* failure does not keep later payloads from being attempted.
C5_BatchPartitionsInput ==
    (pc = "done" /\ call.op = "uploadFiles") =>
        /\ ret.tag = "return"
        /\ LET n == Len(call.files)
               s == ret.value IN
           /\ s.total = n
           /\ s.successCount = Len(s.success)
           /\ s.errorCount = Len(s.errors)
           /\ s.total = s.successCount + s.errorCount
           /\ \E S \in SUBSET (1..n) :
                 /\ [j \in 1..Len(s.success) |-> s.success[j].originalName]
                        = NamesAt(call.files, S)
                 /\ [j \in 1..Len(s.errors) |-> s.errors[j].fileName]
                        = NamesAt(call.files, (1..n) \ S)
                 /\ Registered(ResolvedName) =>
                       /\ Len(provCalls) = n
                       /\ \A i \in 1..n :
                             /\ provCalls[i].idx = i
                             /\ provCalls[i].settled =
                                   (IF i \in S THEN "return" ELSE "throw")

\* three payloads, the second fails: two successes and one error, in order
C5_Witness ==
    /\ pc = "done"
    /\ call.op = "uploadFiles"
    /\ Len(call.files) = 3
    /\ ret.tag = "return"
    /\ ret.value.successCount = 2
    /\ ret.value.errorCount = 1
    /\ ret.value.total = 3
    /\ ret.value.success[1].originalName = call.files[1].name
    /\ ret.value.success[2].originalName = call.files[3].name
    /\ ret.value.errors[1].fileName = call.files[2].name

\* the provider uploads in flight (sending, or sleeping before a retry)
UploadsInFlight == {u \in inflight : u.kind = "upload"}

\* C6: uploadFiles is strictly sequential: at every moment at most one
\* provider upload is in flight, retries and backoff sleeps included; while
\* the upload of payload k is in flight every earlier payload has completed
\* and no later payload has been started.
C6_OneUploadAtATime ==
    /\ Cardinality(UploadsInFlight) <= 1
    /\ (call.op = "uploadFiles" /\ pc = "busy") =>
          \A u \in UploadsInFlight :
             /\ Len(results) + Len(errors) = u.idx - 1
             /\ {provCalls[i].idx : i \in 1..Len(provCalls)} = 1..u.idx
             /\ \A i \in 1..Len(provCalls) :
                   (provCalls[i].settled = "pending") = (provCalls[i].idx = u.idx)

\* payload 2 of 3 sleeps before a retry; payload 3 has not been started
C6_Witness ==
    /\ pc = "busy"
    /\ call.op = "uploadFiles"
    /\ Len(call.files) = 3
    /\ \E u \in UploadsInFlight : u.idx = 2 /\ u.stage = "backoff"
    /\ Len(provCalls) = 2
    /\ Len(results) + Len(errors) = 1

\* the status recorded for provider name in the health answer rs
HealthOf(rs, name) == MapGet(rs, name)

\* C7: healthCheck never fails; its answer has exactly one entry per
\* registered provider; a provider whose probe fails is reported with status
\* "error" and a message, and that leaves the entries of the other providers
\* as their own probes made them.
C7_HealthCheckTotal ==
    /\ (call.op = "healthCheck" /\ pc = "done") =>
          /\ ret.tag = "return"
          /\ {ret.value.statuses[i].name : i \in 1..Len(ret.value.statuses)} = RegisteredNames
          /\ Len(ret.value.statuses) = Len(providers)
          /\ \A i \in 1..Len(net) :
                LET entry == HealthOf(ret.value.statuses, net[i].name) IN
                /\ net[i].state = "failed" =>
                      (entry.status = "error" /\ entry.message # <<>>)
                /\ (net[i].state = "answered" /\ net[i].status \in 200..299
                    /\ net[i].name \in {"s3", "minio"}) =>
                      entry.status = "healthy"
    /\ (call.op = "healthCheck" /\ pc = "busy") =>
          /\ ret.tag # "throw"
          /\ \A u \in inflight :
                {results[i].name : i \in 1..Len(results)} =
                   {providers[i].name : i \in 1..(u.idx - 1)}

\* the probe of telegram fails, the probe of minio after it succeeds
C7_Witness ==
    /\ pc = "done"
    /\ call.op = "healthCheck"
    /\ Len(ret.value.statuses) = 2
    /\ HealthOf(ret.value.statuses, "telegram").status = "error"
    /\ HealthOf(ret.value.statuses, "minio").status = "healthy"
    /\ net[1].state = "failed"

\* C8: Deleting the same fileId twice in a row on S3, MinIO or Supabase,
\* where the back-end answers the second DELETE with 404, reports
\* success = true on the second call.
C8_SecondDeleteOf404Succeeds ==
    (/\ pc = "done"
     /\ call.op = "deleteFile"
     /\ call.name \in {"s3", "minio", "supabase"}
     /\ Registered(call.name)
     /\ round = 2
     /\ net # <<>>
     /\ net[1].state = "answered"
     /\ net[1].status = 404) =>
        (ret.tag = "return" /\ ret.value.success = TRUE)

\* C9: deleteFile of each of the four providers never fails, for every
\* back-end outcome (2xx, 404, other statuses, network error): it returns a
\* {success, message} record, a failure being success = false with a message;
\* the Telegram provider always returns success = false.
C9_DeleteNeverThrows ==
    (pc = "done" /\ call.op = "deleteFile" /\ Registered(call.name)) =>
        /\ ret.tag = "return"
        /\ DOMAIN ret.value = {"success", "message"}
        /\ ret.value.success \in BOOLEAN
        /\ ret.value.message # <<>>
        /\ provCalls[1].settled = "return"
        /\ call.name = "telegram" => (ret.value.success = FALSE /\ net = <<>>)
        /\ (net # <<>> /\ (net[1].state = "failed"
                           \/ net[1].status \notin (200..299) \cup {404})) =>
              ret.value.success = FALSE
        /\ (net # <<>> /\ net[1].state = "answered" /\ net[1].status \in 200..299) =>
              ret.value.success = TRUE

\* the DELETE sent to S3 fails at the network level
C9_Witness ==
    /\ pc = "done"
    /\ call.op = "deleteFile"
    /\ call.name = "s3"
    /\ net # <<>>
    /\ net[1].state = "failed"
    /\ ret.tag = "return"
    /\ ret.value.success = FALSE

\* the attempts, waits and outcome of the Telegram upload in progress
TelegramRetryBounds ==
    (call.op \in {"uploadFile", "uploadFiles"} /\ pc \in {"busy", "done"}
     /\ ResolvedName = "telegram" /\ Registered("telegram")) =>
        /\ Len(net) <= 3
        /\ Len(waits) <= 2
        /\ \A k \in 1..Len(waits) : waits[k] = k * 1000
        /\ \A u \in UploadsInFlight :
              /\ u.retryCount = Len(net) - 1
              /\ Len(waits) = IF u.stage = "backoff" THEN Len(net) ELSE Len(net) - 1
        /\ (pc = "done" /\ call.op = "uploadFile" /\ Len(net) = 3
            /\ \A i \in 1..3 : net[i].state = "failed") =>
              /\ waits = <<1000, 2000>>
              /\ ret.tag = "throw"
              /\ ret.error.kind = "UploadFailed"
              /\ ret.error.cause = <<"tg:network">>
              /\ provCalls[1].settled = "throw"

\* a Telegram upload, or a batch of them, is in progress
TelegramUploading ==
    /\ pc = "busy"
    /\ call.op \in {"uploadFile", "uploadFiles"}
    /\ \E u \in UploadsInFlight : u.name = "telegram"

\* C10: One Telegram upload makes at most 3 send attempts; the wait before
\* retry k is k * 1000 ms; when all three attempts fail at the network level
\* the send reports failure and the upload fails; a Telegram upload in
\* progress always comes to its end.
C10_TelegramRetryBounded ==
    /\ []TelegramRetryBounds
    /\ (TelegramUploading ~> pc = "done")

\* three sends, all failing at the network level, with waits of 1 s and 2 s
C10_Witness ==
    /\ pc = "done"
    /\ call.op = "uploadFile"
    /\ ResolvedName = "telegram"
    /\ Len(net) = 3
    /\ \A i \in 1..3 : net[i].state = "failed"
    /\ waits = <<1000, 2000>>
    /\ ret.tag = "throw"

\* a Telegram upload is in progress or has just ended
TelegramUploadCall ==
    /\ call.op \in {"uploadFile", "uploadFiles"}
    /\ pc \in {"busy", "done"}
    /\ ResolvedName = "telegram"
    /\ Registered("telegram")

\* C11: In the Telegram provider only a network-level failure of the send
\* triggers the retry: once an HTTP response has been received for a send,
\* whatever its status and body, no further send is made for that upload.
C11_NoSendAfterResponse ==
    TelegramUploadCall =>
        \A i \in 1..Len(net) : net[i].state = "answered" => i = Len(net)

\* the answer to send i was received, its body is a JSON object, and it is not a success
WellFormedRejection(i) ==
    /\ net[i].state = "answered"
    /\ net[i].answer.parses
    /\ ~net[i].answer.body.isNull
    /\ net[i].status \notin 200..299

\* C12: When the bot API answers a send with a well-formed non-success
\* response, no send follows it and no wait follows it; when that is the
\* answer to the first send, exactly one send is made, with no backoff wait;
\* the upload fails, and when the answer carries a description the failure
\* carries that description as its message.
C12_RejectionIsNotRetried ==
    TelegramUploadCall =>
        \A i \in 1..Len(net) : WellFormedRejection(i) =>
            /\ i = Len(net)
            /\ Len(waits) = i - 1
            /\ i = 1 => (Len(net) = 1 /\ waits = <<>>)
            /\ UploadsInFlight = {}
            /\ (call.op = "uploadFile") =>
                  /\ pc = "done"
                  /\ ret.tag = "throw"
                  /\ ret.error.kind = "UploadFailed"
                  /\ provCalls[1].settled = "throw"
                  /\ net[i].answer.body.description # <<>> =>
                        ret.error.cause = net[i].answer.body.description
            /\ (call.op = "uploadFiles" /\ net[i].answer.body.description # <<>>) =>
                  /\ errors # <<>>
                  /\ errors[Len(errors)].error.cause = net[i].answer.body.description

\* the first send is answered 400 with a description: one send, no wait
C12_Witness ==
    /\ pc = "done"
    /\ call.op = "uploadFile"
    /\ ResolvedName = "telegram"
    /\ Len(net) = 1
    /\ net[1].status = 400
    /\ net[1].answer.body.description = Description
    /\ waits = <<>>
    /\ ret.tag = "throw"
    /\ ret.error.cause = Description

\* the extension of the declared name n: what follows its last ".", in lower
\* case (all of n when it has no ".")
ExtensionOf(n) ==
    LET dots == {i \in 1..Len(n) : n[i] = "."}
        last == IF dots = {} THEN 0 ELSE CHOOSE i \in dots : \A j \in dots : j <= i
    IN [k \in 1..(Len(n) - last) |-> LowerChar(n[last + k])]

\* the remote file id the bot API returned for the upload whose send is net[i]
ReturnedRemoteId(i) == net[i].answer.body.id

\* C13: A successful Telegram upload of a file named N for which the bot API
\* returned the remote file id R returns fileId = R + "." + extension(N), and
\* resolving the URL of that fileId looks the path up with exactly R.
C13_TelegramFileIdRoundTrip ==
    /\ (pc = "done" /\ call.op = "uploadFile" /\ ret.tag = "return"
        /\ ret.value.provider = "telegram") =>
          /\ ret.value.telegramFileId = ReturnedRemoteId(Len(net))
          /\ ret.value.fileId =
                ReturnedRemoteId(Len(net)) \o <<".">> \o ExtensionOf(call.files[1].name)
    /\ (call.op = "getFileUrl" /\ pc \in {"busy", "done"} /\ results # <<>>
        /\ call.name = "telegram") =>
          /\ call.fileId = results[1].fileId
          /\ Len(net) = 1
          /\ net[1].what = "getFile"
          /\ net[1].target = results[1].telegramFileId

\* the answer to the path lookup net[1] gives a file path
LookupGavePath ==
    /\ net[1].state = "answered"
    /\ net[1].answer.parses
    /\ ~net[1].answer.body.isNull
    /\ net[1].answer.body.ok
    /\ net[1].answer.body.result = "path"
    /\ net[1].answer.body.id # <<>>

EndsWith(s, t) == Len(t) <= Len(s) /\ SubSeq(s, Len(s) - Len(t) + 1, Len(s)) = t

\* C14: The Telegram getFileUrl fails with a resolution error, and returns no
\* URL, whenever the path lookup gives no path (the bot API answers not-ok,
\* the answer has no file path, or the lookup's fetch fails); it returns a
\* URL only when the lookup gave a file path, and the URL ends with that path.
C14_NoPathIsResolutionError ==
    (pc = "done" /\ call.op = "getFileUrl" /\ call.name = "telegram"
     /\ Registered("telegram")) =>
        /\ Len(net) = 1
        /\ net[1].what = "getFile"
        /\ IF LookupGavePath
           THEN /\ ret.tag = "return"
                /\ EndsWith(ret.value.url, <<"/">> \o net[1].answer.body.id)
                /\ provCalls[1].settled = "return"
           ELSE /\ ret.tag = "throw"
                /\ ret.error.kind = "ResolutionError"
                /\ provCalls[1].settled = "throw"

\* the fetch of the path lookup fails: a resolution error
C14_Witness ==
    /\ pc = "done"
    /\ call.op = "getFileUrl"
    /\ call.name = "telegram"
    /\ net # <<>>
    /\ net[1].state = "failed"
    /\ ret.tag = "throw"
    /\ ret.error.kind = "ResolutionError"

\* the registry has finished an uploadFile that reached the object store `name`
ObjectStoreUpload(name) ==
    /\ pc = "done"
    /\ call.op = "uploadFile"
    /\ Len(provCalls) = 1
    /\ provCalls[1].name = name
    /\ ClassOf(name) = IF name = "s3" THEN "S3Storage" ELSE "MinIOStorage"

\* the object names the upload in `call` can store its file under: the
\* caller's options.fileName, or else a generated name
NamesOf(c) ==
    IF c.fileName # <<>> THEN {c.fileName}
    ELSE {generateFileId(c.files[1].name, 0, rnd) : rnd \in RandomSamples}

\* the object keys of those names: under options.prefix when it is given
ObjectKeysOf(c) ==
    {IF c.prefix # <<>> THEN c.prefix \o <<"/">> \o n ELSE n : n \in NamesOf(c)}

\* the request req addresses the object `key` of `bucket`: in its path, after
\* the bucket when the bucket is not in the host
Targets(req, bucket, key) ==
    \/ req.path = <<"/">> \o key
    \/ req.path = <<"/", bucket, "/">> \o key

\* C15: For every upload to S3 or MinIO the object key is prefix + "/" + name
\* when options.prefix is given and name otherwise, name being options.fileName
\* when present and the generated name otherwise; the PUT targets exactly that
\* key, the returned fileId equals that key, and for S3 the returned url is the
\* public URL base + "/" + key.
C15_ObjectKeyNaming ==
    \A name \in {"s3", "minio"} :
        ObjectStoreUpload(name) =>
            \E key \in ObjectKeysOf(call) :
                /\ Len(net) = 1
                /\ net[1].verb = "PUT"
                /\ net[1].target = key
                /\ Targets(net[1], MapGet(providers, name).bucket, key)
                /\ ret.tag = "return" =>
                      /\ ret.value.fileId = key
                      /\ ret.value.key = key
                      /\ name = "s3" =>
                            ret.value.url =
                                MapGet(providers, "s3").publicUrl \o <<"/">> \o key

Digits == {DigitCs[i] : i \in 1..Len(DigitCs)}
LowerAlnum == Digits \cup {LowerCs[i] : i \in 1..Len(LowerCs)}

\* s matches ^[0-9]+_[a-z0-9]{6}\.png$
MatchesGeneratedPng(s) ==
    \E k \in 1..Len(s) :
        /\ \A j \in 1..k : s[j] \in Digits
        /\ Len(s) = k + 11
        /\ s[k + 1] = "_"
        /\ \A j \in (k + 2)..(k + 7) : s[j] \in LowerAlnum
        /\ SubSeq(s, k + 8, k + 11) = <<".", "p", "n", "g">>

\* uploadFile has returned for the 10-byte a.png of type image/png, sent to S3
\* with no explicit name and no prefix
UploadedPngToS3 ==
    /\ pc = "done"
    /\ call.op = "uploadFile"
    /\ call.files = <<SamplePayloads[1]>>
    /\ call.fileName = <<>>
    /\ call.prefix = <<>>
    /\ ret.tag = "return"
    /\ ret.value.provider = "s3"

\* C16: Uploading the 10-byte a.png of type image/png to S3 with no explicit
\* name and no prefix returns a fileId that matches ^[0-9]+_[a-z0-9]{6}\.png$,
\* a url equal to the public URL base + "/" + fileId, and size 10, whatever the
\* clock and the random source produce.
C16_GeneratedPngResult ==
    UploadedPngToS3 =>
        /\ MatchesGeneratedPng(ret.value.fileId)
        /\ ret.value.url = MapGet(providers, "s3").publicUrl \o <<"/">> \o ret.value.fileId
        /\ ret.value.size = 10

\* Signature Version 4 as its reference states it.  A header value is signed
\* with the spaces around it removed and each run of spaces inside it as one.
RECURSIVE RefCollapse(_)
RefCollapse(v) ==
    IF Len(v) < 2 THEN v
    ELSE IF v[1] = " " /\ v[2] = " " THEN RefCollapse(Tail(v))
    ELSE <<v[1]>> \o RefCollapse(Tail(v))

RefTrim(v) ==
    LET inked == {i \in 1..Len(v) : v[i] # " "} IN
    IF inked = {} THEN <<>> ELSE SubSeq(v, SetMin(inked), SetMax(inked))

RefHeaderNames(headers) ==
    SortStrings({toLowerCase(headers[i].name) : i \in 1..Len(headers)})

RefCanonicalHeaders(headers) ==
    LET names == RefHeaderNames(headers)
        valueOf(n) ==
            (CHOOSE h \in {headers[i] : i \in 1..Len(headers)} :
                 toLowerCase(h.name) = n).value
    IN Join([i \in 1..Len(names) |->
                names[i] \o <<":">> \o RefCollapse(RefTrim(valueOf(names[i]))) \o <<"\n">>],
            <<>>)

RefCanonicalRequest(method, uri, query, headers, payloadHash) ==
    method \o <<"\n">> \o uri \o <<"\n">> \o query \o <<"\n">>
        \o RefCanonicalHeaders(headers) \o <<"\n">>
        \o Join(RefHeaderNames(headers), <<";">>) \o <<"\n">> \o payloadHash

RefScope(dateStamp, region) ==
    dateStamp \o <<"/">> \o region \o <<"/", "s", "3", "/">>
        \o <<"a","w","s","4","_","r","e","q","u","e","s","t">>

RefStringToSign(amzDate, dateStamp, region, canonicalRequest) ==
    <<"A","W","S","4","-","H","M","A","C","-","S","H","A","2","5","6">> \o <<"\n">>
        \o amzDate \o <<"\n">> \o RefScope(dateStamp, region) \o <<"\n">>
        \o sha256(canonicalRequest)

RefSigningKey(secret, dateStamp, region) ==
    hmacSha256(
        hmacSha256(
            hmacSha256(
                hmacSha256(<<"A","W","S","4">> \o secret, dateStamp),
                region),
            <<"s", "3">>),
        <<"a","w","s","4","_","r","e","q","u","e","s","t">>)

RefAuthorization(method, uri, query, headers, payloadHash, region, accessKey, secret,
                 dateStamp, amzDate) ==
    <<"A","W","S","4","-","H","M","A","C","-","S","H","A","2","5","6">>
        \o <<" ","C","r","e","d","e","n","t","i","a","l","=">>
        \o accessKey \o <<"/">> \o RefScope(dateStamp, region)
        \o <<","," ","S","i","g","n","e","d","H","e","a","d","e","r","s","=">>
        \o Join(RefHeaderNames(headers), <<";">>)
        \o <<","," ","S","i","g","n","a","t","u","r","e","=">>
        \o toHex(hmacSha256(
                    RefSigningKey(secret, dateStamp, region),
                    RefStringToSign(amzDate, dateStamp, region,
                        RefCanonicalRequest(method, uri, query, headers, payloadHash))))

\* the requests S3Storage has signed
SignedRequests == {i \in 1..Len(net) : net[i].name = "s3" /\ net[i].headers # <<>>}

\* C17: The Authorization header of every signed S3 request (upload PUT,
\* DELETE, health-check GET) equals what Signature Version 4 gives for the same
\* method, canonical URI, canonical query string, headers, payload hash, region,
\* service s3, access key, secret key, date stamp and x-amz-date.
C17_AuthorizationIsSigV4 ==
    \A i \in SignedRequests :
        LET inst == MapGet(providers, "s3")
            amzDate == HeaderValue(net[i].headers,
                                   <<"x","-","a","m","z","-","d","a","t","e">>) IN
        net[i].authorization =
            RefAuthorization(<<net[i].verb>>, net[i].path, net[i].query, net[i].headers,
                             HeaderValue(net[i].headers,
                                 <<"x","-","a","m","z","-","c","o","n","t","e","n","t","-",
                                   "s","h","a","2","5","6">>),
                             inst.region, <<inst.accessKeyId>>, <<inst.secretAccessKey>>,
                             SubSeq(amzDate, 1, 8), amzDate)

XAmzAcl == <<"x","-","a","m","z","-","a","c","l">>

\* the headers of req named x-amz-acl, in any case
AclHeaders(req) ==
    {i \in 1..Len(req.headers) : toLowerCase(req.headers[i].name) = XAmzAcl}

\* where t occurs in s
Occurrences(s, t) ==
    {i \in 1..(Len(s) - Len(t) + 1) : SubSeq(s, i, i + Len(t) - 1) = t}

\* the SignedHeaders list of an Authorization header names the header h
InSignedHeaders(auth, h) ==
    LET intro == <<"S","i","g","n","e","d","H","e","a","d","e","r","s","=">>
        first == SetMin(Occurrences(auth, intro)) + Len(intro)
        last == SetMin({i \in Occurrences(auth, <<",">>) : i >= first}) - 1
        list == <<";">> \o SubSeq(auth, first, last) \o <<";">>
    IN Occurrences(list, <<";">> \o h \o <<";">>) # {}

\* C18: An S3 upload PUT carries x-amz-acl: public-read if and only if
\* options.public is not exactly false; whenever the header is sent it is one
\* of the signed headers of that request, with its value in what is signed;
\* DELETE and health-check requests never carry it.
C18_AclUnlessPublicFalse ==
    \A i \in 1..Len(net) :
        net[i].name = "s3" /\ Registered("s3") =>
            IF net[i].verb = "PUT"
            THEN /\ (AclHeaders(net[i]) # {}) <=> (call.public # "<false>")
                 /\ \A h \in AclHeaders(net[i]) :
                       /\ net[i].headers[h].name = XAmzAcl
                       /\ net[i].headers[h].value =
                              <<"p","u","b","l","i","c","-","r","e","a","d">>
                       /\ InSignedHeaders(net[i].authorization, XAmzAcl)
                       /\ Occurrences(net[i].authorization,
                                      XAmzAcl \o <<":">> \o net[i].headers[h].value
                                          \o <<"\n">>) # {}
            ELSE AclHeaders(net[i]) = {}

\* a PUT of an upload that gives no options.public carries the header, and a
\* signature over it
C18_Witness ==
    /\ call.op = "uploadFile"
    /\ call.public = Absent
    /\ Len(net) = 1
    /\ net[1].name = "s3"
    /\ net[1].verb = "PUT"
    /\ AclHeaders(net[1]) # {}
    /\ InSignedHeaders(net[1].authorization, XAmzAcl)

\* the path of the URL url: from the first slash after its host up to its "?"
UrlPathOf(url) ==
    LET start == SetMin({i \in Indices(url, "/") : i >= SetMin(Indices(url, ":")) + 3})
        stop == IF Indices(url, "?") = {} THEN Len(url)
                ELSE SetMin(Indices(url, "?")) - 1
    IN SubSeq(url, start, stop)

\* the addressing style the settings ask for
VirtualHosted ==
    IF "AWS_S3_VIRTUAL_HOST" \in DOMAIN env
    THEN toLowerCase(env["AWS_S3_VIRTUAL_HOST"]) # <<"f","a","l","s","e">>
    ELSE IsAwsDefault(UrlHost(MapGet(providers, "s3").endpoint))

\* C19: S3 addressing.  AWS_S3_VIRTUAL_HOST, when defined, alone decides
\* (virtual-hosted unless it is "false" in any case); when undefined, the
\* style is virtual-hosted exactly when the endpoint host matches the default
\* AWS S3 pattern.  Virtual-hosted: host = bucket + "." + endpoint host and
\* path = "/" + key; path style: host = endpoint host and path = "/" + bucket
\* + "/" + key.  The signed Host header and canonical URI are the host and the
\* path of the URL requested.
C19_AddressingStyle ==
    \A i \in 1..Len(net) :
        net[i].name = "s3" /\ Registered("s3") =>
            LET inst == MapGet(providers, "s3")
                endpointHost == UrlHost(inst.endpoint)
                key == net[i].target IN
            /\ IF VirtualHosted
               THEN /\ net[i].host = <<inst.bucket, ".">> \o endpointHost
                    /\ net[i].path = <<"/">> \o key
               ELSE /\ net[i].host = endpointHost
                    /\ net[i].path = <<"/", inst.bucket, "/">> \o key
            /\ UrlHost(net[i].url) = net[i].host
            /\ UrlPathOf(net[i].url) = net[i].path
            /\ HeaderValue(net[i].headers, <<"H","o","s","t">>) = UrlHost(net[i].url)
            /\ InSignedHeaders(net[i].authorization, <<"h","o","s","t">>)
            /\ Occurrences(net[i].authorization,
                           <<net[i].verb, "\n">> \o UrlPathOf(net[i].url) \o <<"\n">>
                               \o net[i].query \o <<"\n">>) # {}

HealthStatuses == {"healthy", "unhealthy", "error", "unknown"}

\* the requests the healthCheck of the provider at position k has issued
ProbesOf(k) == {i \in 1..Len(net) : net[i].idx = k}

\* an exception is raised inside the healthCheck whose request is net[i]: the
\* fetch fails, or (bot API) the body is not JSON
RaisedInCheck(i) ==
    \/ net[i].state = "failed"
    \/ /\ net[i].name = "telegram"
       /\ net[i].state = "answered"
       /\ ~net[i].answer.parses

\* C20: Whatever the back-end answers (success, non-success status, malformed
\* body, network failure), the healthCheck of each of the four variants returns
\* a health status and never throws; an exception raised during the check
\* becomes status "error" with a message; each check issues at most one
\* network request; and every status in the answer of the registry's
\* healthCheck is one of healthy, unhealthy, error, unknown.
C20_ProviderHealthChecksTotal ==
    call.op = "healthCheck" =>
        /\ \A c \in 1..Len(provCalls) :
              /\ provCalls[c].method = "healthCheck"
              /\ provCalls[c].settled # "throw"
              /\ Cardinality(ProbesOf(provCalls[c].idx)) <= 1
              /\ provCalls[c].settled = "return" =>
                    LET entry == HealthOf(results, provCalls[c].name) IN
                    /\ entry.status \in HealthStatuses
                    /\ entry.message # <<>>
                    /\ \A i \in ProbesOf(provCalls[c].idx) :
                          RaisedInCheck(i) => entry.status = "error"
        /\ Len(net) <= Len(provCalls)
        /\ pc = "done" =>
              /\ ret.tag = "return"
              /\ \A i \in 1..Len(ret.value.statuses) :
                    ret.value.statuses[i].val.status \in HealthStatuses

\* all four variants checked: one body malformed, one non-success status, one
\* network failure, one success
C20_Witness ==
    /\ pc = "done"
    /\ call.op = "healthCheck"
    /\ Len(provCalls) = 4
    /\ \E i \in 1..Len(net) :
          net[i].name = "telegram" /\ net[i].state = "answered" /\ ~net[i].answer.parses
    /\ \E i \in 1..Len(net) : net[i].state = "failed"
    /\ {ret.value.statuses[i].val.status : i \in 1..4} =
          {"healthy", "unhealthy", "error"}

C22_WindowBound ==
    LET Times == {0, 61000}
        InWindow(count, route, t) ==
            LET w == {x \in Times : x <= t /\ x > t - rateLimiter(route).windowMs}
                Sum[S \in SUBSET w] ==
                    IF S = {} THEN 0
                    ELSE LET x == CHOOSE y \in S : TRUE
                         IN count[route][x] + Sum[S \ {x}]
            IN Sum[w]
    IN \A t \in Times :
          /\ \A route \in {"upload", "api"} :
                InWindow(limiter.through, route, t) <= rateLimiter(route).max
          /\ limiter.refused["upload"][t] > 0
                => InWindow(limiter.made, "upload", t) > rateLimiter("upload").max

\* every request of the two routes sends to storage exactly the files that pass
\* the size limit and the given type test, records every other file it has
\* reached as rejected, and by its answer has reached every file
AdmissionHolds(OnList(_, _)) ==
    \A r \in site.reqs :
        LET maxSize == parseMaxFileSize(site.settings.MAX_FILE_SIZE, r.route = "apiUpload")
            list == parseAllowedTypes(site.settings.ALLOWED_FILE_TYPES)
            file(j) == SamplePayloads[r.files[j]]
            Admitted(j) == file(j).size <= maxSize /\ OnList(file(j), list)
            sent == {r.sent[i] : i \in 1..Len(r.sent)}
            rejected == {r.rejected[i] : i \in 1..Len(r.rejected)}
        IN /\ \A j \in sent : Admitted(j)
           /\ \A j \in rejected : ~Admitted(j)
           /\ sent \cap rejected = {}
           /\ sent \cup rejected =
                 1..(IF r.phase = "answered" THEN Len(r.files) ELSE r.k)

\* C23 (as claimed): a file is sent to storage only if its size is at most the
\* configured maximum and its type or its extension is an entry of the
\* allow-list; a file failing a check is recorded and not sent, and the other
\* files of the request are still processed
C23_AdmissionByListMembership ==
    AdmissionHolds(LAMBDA f, list :
        \E i \in 1..Len(list) :
            list[i] = toLowerCase(f.type) \/ list[i] = toLowerCase(SplitPop(f.name)))

\* C23 (amended): a file is sent to storage only if its size is at most the
\* configured maximum and the parsed allow-list is empty or has an entry that
\* is the wildcard, the lower-cased type, the type's family before the
\* slash, or the lower-cased extension; a file failing a check is recorded and
\* not sent, and the other files of the request are still processed
C23_AdmissionBeforeStorage ==
    AdmissionHolds(LAMBDA f, list :
        \/ list = <<>>
        \/ \E i \in 1..Len(list) :
              \/ list[i] = <<"*","/","*">>
              \/ list[i] = toLowerCase(f.type)
              \/ /\ Len(f.type) > Len(list[i])
                 /\ \A n \in 1..Len(list[i]) : toLowerCase(f.type)[n] = list[i][n]
                 /\ f.type[Len(list[i]) + 1] = "/"
              \/ list[i] = toLowerCase(SplitPop(f.name)))

\* under the default settings a request with d.txt and a.png has been answered:
\* the first file was rejected, the second was sent to storage and stored
C23_Witness ==
    \E r \in site.reqs :
        /\ site.settings.ALLOWED_FILE_TYPES = Absent
        /\ r.phase = "answered"
        /\ r.files = <<4, 1>>
        /\ r.rejected = <<1>>
        /\ r.sent = <<2>>
        /\ r.stored = <<2>>

\* C29: an answer of /upload with a success status and a non-empty list of
\* {src} entries means that a file was stored; a request none of whose files
\* was stored is answered with an error status; and the list has one entry for
\* each file whose storage upload succeeded
C29_UploadAnswer ==
    \A r \in site.reqs :
        r.route = "upload" /\ r.phase = "answered" =>
            /\ r.status = 200 /\ Len(r.results) > 0 => Len(r.stored) > 0
            /\ Len(r.stored) = 0 => r.status >= 400
            /\ Len(r.results) = Len(r.stored)

\* C30: the index of the user's files holds the key of every upload that an
\* authenticated request has reported as successful exactly once, and its
\* total is the length of its list of ids, however the KV reads and writes of
\* the user's requests interleave
C30_UserIndexComplete ==
    /\ site.index.total = Len(site.index.ids)
    /\ \A r \in site.reqs :
          r.route = "upload" /\ r.user /\ r.phase = "answered" =>
             \A i \in 1..Len(r.results) :
                Cardinality({n \in 1..Len(site.index.ids) :
                                site.index.ids[n] = r.results[i]}) = 1

\* C24: in every signed S3 request the SignedHeaders list of the Authorization
\* header is the lower-cased names of all the other headers sent, sorted and
\* joined by ';'; what is signed lists the same names in the same order, each
\* as name:value and a newline with the value that is sent, then the list, then
\* the payload hash; and the payload hash is the x-amz-content-sha256 header,
\* the hash of the body of a PUT and of the empty string otherwise
C24_SignedHeadersAreSentHeaders ==
    \A i \in SignedRequests :
        LET sent == net[i].headers
            auth == net[i].authorization
            names == SortStrings({toLowerCase(sent[h].name) : h \in 1..Len(sent)})
            valueSent(n) ==
                (CHOOSE h \in {sent[k] : k \in 1..Len(sent)} : toLowerCase(h.name) = n).value
            list == Join(names, <<";">>)
            block == Join([k \in 1..Len(names) |->
                              names[k] \o <<":">> \o valueSent(names[k]) \o <<"\n">>], <<>>)
            hash == HeaderValue(sent, <<"x","-","a","m","z","-","c","o","n","t","e","n","t","-",
                                        "s","h","a","2","5","6">>)
            intro == <<"S","i","g","n","e","d","H","e","a","d","e","r","s","=">>
            outro == <<","," ","S","i","g","n","a","t","u","r","e","=">>
        IN /\ Len(names) = Len(sent)
           /\ Occurrences(auth, intro \o list \o outro) # {}
           /\ Occurrences(auth, <<"\n">> \o block \o <<"\n">> \o list \o <<"\n">>
                                    \o hash \o <<")">>) # {}
           /\ hash = sha256(IF net[i].verb = "PUT" THEN <<"{body}">> ELSE <<>>)

\* a PUT with the ACL header and a content type of two words has been signed,
\* and so has a request without a body
C24_Witness ==
    \E i \in SignedRequests :
        /\ Len(net[i].headers) = IF net[i].verb = "PUT" THEN 6 ELSE 3
        /\ net[i].verb = "PUT" =>
              \E h \in 1..Len(net[i].headers) :
                 Occurrences(net[i].headers[h].value, <<" ", " ">>) # {}
        /\ net[i].state = "answered"
        /\ pc = "done"
        /\ call.op \in {"uploadFile", "deleteFile"}

\* the requests MinIOStorage has signed
MinIOSigned == {i \in 1..Len(net) : net[i].name = "minio" /\ net[i].headers # <<>>}

\* C25: what MinIOStorage signs is the method, an empty Content-MD5, the
\* Content-Type, the Date and then the x-amz- headers and the resource, each
\* part on its own line: every metadata entry of the upload is sent as an
\* x-amz-meta-<key> header; the block of x-amz- headers holds exactly those
\* headers, each as its lower-cased name, a colon, its value and a newline, in
\* the order of the lower-cased names, and is empty when there is none; and
\* /bucket/key follows the block immediately
C25_LegacyStringToSign ==
    \A i \in MinIOSigned :
        LET inst == MapGet(providers, "minio")
            sent == net[i].headers
            valueOf(n) ==
                (CHOOSE h \in {sent[k] : k \in 1..Len(sent)} : toLowerCase(h.name) = n).value
            typed == {k \in 1..Len(sent) :
                         sent[k].name = <<"C","o","n","t","e","n","t","-","T","y","p","e">>}
            amz == SortStrings({toLowerCase(sent[k].name) : k \in
                       {k \in 1..Len(sent) :
                           startsWith(toLowerCase(sent[k].name), <<"x","-","a","m","z","-">>)}})
            block == Join([k \in 1..Len(amz) |->
                              amz[k] \o <<":">> \o valueOf(amz[k]) \o <<"\n">>], <<>>)
            stringToSign ==
                <<net[i].verb, "\n", "\n">>
                    \o (IF typed = {} THEN <<>> ELSE valueOf(<<"c","o","n","t","e","n","t","-","t","y","p","e">>))
                    \o <<"\n">> \o valueOf(<<"d","a","t","e">>) \o <<"\n">>
                    \o block \o <<"/", inst.bucket, "/">> \o net[i].target
        IN /\ net[i].verb = "PUT" =>
                \A m \in 1..Len(call.metadata) :
                    \E k \in 1..Len(sent) :
                        /\ sent[k].name = <<"x","-","a","m","z","-","m","e","t","a","-">>
                                              \o call.metadata[m].name
                        /\ sent[k].value = call.metadata[m].value
           /\ net[i].authorization =
                 <<"A","W","S"," ", inst.accessKey, ":", "hmacSha1(", inst.secretKey, ";">>
                     \o stringToSign \o <<")">>

\* C28: in every request MinIOStorage signs (the PUT of an upload, the DELETE,
\* the listing of the health check) the resource that ends the signed text is
\* the path, without the query, of the URL the request goes to, and the method
\* that begins the signed text is the method of the request
C28_SignedResourceIsRequestPath ==
    \A i \in MinIOSigned :
        LET auth == net[i].authorization
            \* 'AWS ', the access key, ':', then the keyed hash of the text
            text == SubSeq(auth, 10, Len(auth) - 1)
            resource == <<"\n">> \o net[i].path
        IN /\ text[1] = net[i].verb
           /\ text[2] = "\n"
           /\ Len(text) >= Len(resource)
           /\ SubSeq(text, Len(text) - Len(resource) + 1, Len(text)) = resource

\* C26: the bot API method is chosen from the declared type alone and for every
\* type: the first six characters, compared without regard to case, decide;
\* 'audio/' gives sendAudio with the form field 'audio', 'video/' gives
\* sendVideo with 'video', 'image/' and everything else give sendDocument with
\* 'document'
C26_EndpointByTypeFamily ==
    pc = "done" /\ call.op = "getApiEndpoint" =>
        LET type == call.files[1].type
            SameLetter(c, d) ==
                \/ c = d
                \/ \E k \in 1..26 : {c, d} = {UpperCs[k], LowerCs[k]}
            Begins(word) ==
                /\ Len(type) >= Len(word)
                /\ \A k \in 1..Len(word) : SameLetter(type[k], word[k])
        IN /\ ret.tag = "return"
           /\ ret.value =
                 IF Begins(<<"a","u","d","i","o","/">>)
                 THEN [apiEndpoint |-> "sendAudio", formFieldName |-> "audio"]
                 ELSE IF Begins(<<"v","i","d","e","o","/">>)
                 THEN [apiEndpoint |-> "sendVideo", formFieldName |-> "video"]
                 ELSE [apiEndpoint |-> "sendDocument", formFieldName |-> "document"]
           /\ Begins(<<"i","m","a","g","e","/">>) => ret.value.apiEndpoint = "sendDocument"

\* the method has been chosen for a type written Audio/PNG
C26_Witness ==
    /\ pc = "done"
    /\ call.op = "getApiEndpoint"
    /\ call.files[1].type = <<"A","u","d","i","o","/","P","N","G">>
    /\ ret.value.formFieldName = "audio"

\* C27: when the caller of a successful upload to S3, MinIO or Supabase next
\* resolves the fileId of the result without the signed option, it gets the url
\* of the result; when it next deletes that fileId, the DELETE goes to the host
\* and the path the upload's request went to
C27_FileIdReproducesAddressing ==
    [][(/\ pc = "done"
        /\ call.op = "uploadFile"
        /\ ret.tag = "return"
        /\ ret.value.provider \in {"s3", "minio", "supabase"}) =>
          /\ call'.op = "getFileUrl" =>
                /\ pc' = "done"
                /\ ret'.tag = "return"
                /\ ret'.value.url = ret.value.url
          /\ call'.op = "deleteFile" =>
                /\ Len(net') = 1
                /\ net'[1].verb = "DELETE"
                /\ net'[1].host = net[Len(net)].host
                /\ net'[1].path = net[Len(net)].path]_vars

\* the DELETE of a file that Supabase stored under a prefix has been answered
C27_Witness ==
    /\ pc = "done"
    /\ call.op = "deleteFile"
    /\ call.name = "supabase"
    /\ Len(results) = 1
    /\ results[1].fileId = call.fileId
    /\ startsWith(call.fileId, <<"u","p","/">>)
    /\ net[1].state = "answered"
    /\ net[1].path = <<"/storage/v1", "/object/", "v", "/">> \o call.fileId

====
